---- MODULE Spec2Model ----
(***************************************************************************)
(* A model of the algorithmic core of crypto-liquidity-trader:             *)
(*   - the Fair Value Gap detector and its overlap filter                  *)
(*       (src/patterns/fair_value_gap.py, src/patterns/base.py),           *)
(*   - calculate_dynamic_take_profits (src/utils/chart_analysis.py),       *)
(*   - the backtest engine (src/backtesting/engine.py).                    *)
(* Each component has its own specification (SpecDetect, SpecTP, SpecBT);  *)
(* the variables of the other components stay at their initial values.     *)
(*                                                                         *)
(* Numbers.  The program computes with floats; the model computes with     *)
(* exact integers.  Every ratio the code compares against a threshold is   *)
(* compared by cross-multiplication (the denominators are positive), and   *)
(* money is held in fixed point (see MoneyPerPrice).                        *)
(***************************************************************************)
EXTENDS Integers, Sequences, FiniteSets, TLC

VARIABLES
    \* ---- Fair Value Gap detector
    df,               \* the candle sequence handed to detect
    lookback_candles, \* FairValueGap.lookback_candles (configuration)
    patterns,         \* the list detect returned
    candidates,       \* the list detect built before filter_overlapping_patterns
    dpc,              \* "feed" while candles arrive, "detected" after detect
    \* ---- calculate_dynamic_take_profits
    tp_in,            \* the arguments of the call
    tp_out,           \* the list it returned
    tpc,              \* "args" before the call, "returned" after
    \* ---- backtest engine
    signals,          \* the list passed to run_backtest, in input order
    ohlcv_data,       \* (symbol, timeframe) -> candle series
    pc,               \* "idle", "running", "done", "raised"
    order,            \* signals_sorted, as indices into signals
    cursor,           \* how many entries of order the for loop has consumed
    capital,          \* self.capital
    closed_trades,    \* self.closed_trades
    equity_curve,     \* self.equity_curve
    journal,          \* per processed signal: what _process_signal did with it
    results,          \* the dictionary run_backtest returned
    runs,             \* how many calls of run_backtest this engine has seen
    returned,         \* the earlier calls' inputs and results, as their caller
                      \* sees them now
    \* ---- signal generator
    gen_df,           \* current_df handed to generate_signals_from_patterns
    gen_patterns,     \* the pattern list handed to it
    gen_signals,      \* the list it returned
    gpc,              \* "args" before the call, "generated" after it returned,
                      \* "raised" after an exception, "looping" if it never
                      \* returns, "stamped" once the backtest script has added
                      \* generated_at to the signals
    \* ---- check_signal_validity
    val_signal,       \* the signal argument
    val_price,        \* current_price
    val_time,         \* current_time
    val_result,       \* the (is_valid, reason) pair returned
    vpc,              \* "args" before the call, "returned" after
    \* ---- historical fetch script
    timeframes,       \* config "timeframes"
    ohlcv_1m,         \* per trading pair, the 1-minute candles fetched for it
    fpc,              \* "config", "running", "completed"
    fetch_i,          \* index of the trading pair the outer loop is at
    fetch_j,          \* how many timeframes the inner loop has consumed
    fetch_trace,      \* what the aggregation loop did, in order: frames saved
                      \* and errors logged
    \* ---- find_equal_levels
    eq_points,        \* the prices of swing_points, in list order
    eq_tolerance,     \* tolerance, as the fraction <<num, den>>
    eq_levels,        \* the list it returned
    epc               \* "args" before the call, "returned" after

detectVars == <<df, lookback_candles, patterns, candidates, dpc>>
tpVars     == <<tp_in, tp_out, tpc>>
btVars     == <<signals, ohlcv_data, pc, order, cursor, capital, closed_trades,
                equity_curve, journal, results, runs, returned>>
genVars    == <<gen_df, gen_patterns, gen_signals, gpc>>
valVars    == <<val_signal, val_price, val_time, val_result, vpc>>
fetchVars  == <<timeframes, ohlcv_1m, fpc, fetch_i, fetch_j, fetch_trace>>
eqVars     == <<eq_points, eq_tolerance, eq_levels, epc>>
restVars   == <<genVars, valVars, fetchVars, eqVars>>
vars       == <<detectVars, tpVars, btVars, restVars>>

-----------------------------------------------------------------------------
(* Helpers                                                                 *)

Abs(x) == IF x < 0 THEN -x ELSE x

Max2(a, b) == IF a >= b THEN a ELSE b

Last(s) == s[Len(s)]

\* None of Python; a model value no price, list or record equals.
None == "None"

-----------------------------------------------------------------------------
(* Fair Value Gap detector                                                 *)

\* Longest candle sequence fed to detect.
MaxCandles == 6

\* The smaller of the two look-back settings the detector is configured with
\* (the other one is MaxCandles: the whole sequence is scanned).
ShortLookback == 4

\* min_gap_percentage = 0.1 per cent, as the fraction MinGapNum / MinGapDen.
MinGapNum == 1
MinGapDen == 10

\* The candles the feed draws from (open, high, low, close).  Prices are near
\* 2000 so that gaps of a few units fall on both sides of the 0.1 %, 0.5 % and
\* 1 % thresholds; bodies fall on both sides of 0.5, 0.7 and 0.9 of the range.
CandleMenu ==
    { [open |-> 2000, high |-> 2004, low |-> 1998, close |-> 2001],  \* weak, low
      [open |-> 2002, high |-> 2030, low |-> 2001, close |-> 2029],  \* impulse up
      [open |-> 2016, high |-> 2040, low |-> 2015, close |-> 2039],  \* impulse up
      [open |-> 2044, high |-> 2050, low |-> 2043, close |-> 2048],  \* high
      [open |-> 2029, high |-> 2030, low |-> 2005, close |-> 2008] } \* impulse down

\* BasePattern.prepare_dataframe: a copy sorted by timestamp.
RECURSIVE InsertByTimestamp(_, _)
InsertByTimestamp(c, s) ==
    IF s = <<>> THEN <<c>>
    ELSE IF Last(s).timestamp <= c.timestamp THEN Append(s, c)
    ELSE Append(InsertByTimestamp(c, SubSeq(s, 1, Len(s) - 1)), Last(s))

RECURSIVE prepare_dataframe(_)
prepare_dataframe(d) ==
    IF d = <<>> THEN <<>>
    ELSE InsertByTimestamp(Last(d), prepare_dataframe(SubSeq(d, 1, Len(d) - 1)))

\* FairValueGap.calculate_confidence, in tenths (0.5 -> 5).  gap_percentage is
\* gap_size * 100 / close and impulse_strength is body / range.
calculate_confidence(gap_size, close, body, range) ==
    LET c0 == 5
        c1 == IF gap_size * 100 * 2 > close THEN c0 + 2 ELSE c0
        c2 == IF gap_size * 100 > close THEN c1 + 1 ELSE c1
        c3 == IF body * 10 > range * 7 THEN c2 + 1 ELSE c2
        c4 == IF body * 10 > range * 9 THEN c3 + 1 ELSE c3
    IN  IF c4 < 10 THEN c4 ELSE 10

\* The pattern dictionary both detectors build.  gap_percentage is kept as the
\* fraction gap_pct_num / gap_pct_den.
MakePattern(direction, c0, c1, c2, gap_top, gap_bottom) ==
    LET gap_size == gap_top - gap_bottom
        body     == Abs(c1.close - c1.open)
        range    == c1.high - c1.low
    IN  [ pattern_type     |-> "fair_value_gap",
          direction        |-> direction,
          start_timestamp  |-> c0.timestamp,
          end_timestamp    |-> c2.timestamp,
          price_high       |-> gap_top,
          price_low        |-> gap_bottom,
          gap_size         |-> gap_size,
          gap_pct_num      |-> gap_size * 100,
          gap_pct_den      |-> c1.close,
          confidence_score |-> calculate_confidence(gap_size, c1.close, body, range) ]

\* gap_percentage >= self.min_gap_percentage
MeetsMinGap(gap_size, close) ==
    gap_size * 100 * MinGapDen >= MinGapNum * close

\* body / range > 0.5 (evaluated only for a candle with close # open, whose
\* range is positive)
StrongBody(c1) ==
    Abs(c1.close - c1.open) * 2 > (c1.high - c1.low)

\* FairValueGap._detect_bullish_fvg: <<pattern>>, or <<>> for None.
_detect_bullish_fvg(c0, c1, c2) ==
    LET gap_bottom == c0.high
        gap_top    == c2.low
    IN  IF    /\ gap_top > gap_bottom
              /\ MeetsMinGap(gap_top - gap_bottom, c1.close)
              /\ c1.close > c1.open
              /\ StrongBody(c1)
        THEN <<MakePattern("bullish", c0, c1, c2, gap_top, gap_bottom)>>
        ELSE <<>>

\* A slip in the bearish detector: the impulse test copied from the bullish one.
Mut_detect_bearish_fvg(c0, c1, c2) ==
    LET gap_top    == c0.low
        gap_bottom == c2.high
    IN  IF    /\ gap_top > gap_bottom
              /\ MeetsMinGap(gap_top - gap_bottom, c1.close)
              /\ c1.close > c1.open
              /\ StrongBody(c1)
        THEN <<MakePattern("bearish", c0, c1, c2, gap_top, gap_bottom)>>
        ELSE <<>>

\* FairValueGap._detect_bearish_fvg: <<pattern>>, or <<>> for None.
_detect_bearish_fvg(c0, c1, c2) ==
    LET gap_top    == c0.low
        gap_bottom == c2.high
    IN  IF    /\ gap_top > gap_bottom
              /\ MeetsMinGap(gap_top - gap_bottom, c1.close)
              /\ c1.close < c1.open
              /\ StrongBody(c1)
        THEN <<MakePattern("bearish", c0, c1, c2, gap_top, gap_bottom)>>
        ELSE <<>>

\* A slip in the overlap test: intervals that share only a boundary candle
\* count as disjoint.
Mut_patterns_overlap(p1, p2) ==
    ~ (p1.end_timestamp <= p2.start_timestamp \/ p2.end_timestamp <= p1.start_timestamp)

\* BasePattern._patterns_overlap
_patterns_overlap(p1, p2) ==
    ~ (p1.end_timestamp < p2.start_timestamp \/ p2.end_timestamp < p1.start_timestamp)

\* The sort key of filter_overlapping_patterns:
\* p.get("confidence_score", p.get("gap_size", 0)); every pattern the detector
\* builds carries a confidence_score.
OverlapSortKey(p) == p.confidence_score

\* list.sort(key=..., reverse=True): descending and stable (equal keys keep
\* their order).
RECURSIVE InsertDescending(_, _)
InsertDescending(p, s) ==
    IF s = <<>> THEN <<p>>
    ELSE IF OverlapSortKey(Last(s)) >= OverlapSortKey(p) THEN Append(s, p)
    ELSE Append(InsertDescending(p, SubSeq(s, 1, Len(s) - 1)), Last(s))

\* The sort left out: the candidates are filtered in scan order.
Mut_SortDescending(s) == s

RECURSIVE SortDescending(_)
SortDescending(s) ==
    IF s = <<>> THEN <<>>
    ELSE InsertDescending(Last(s), SortDescending(SubSeq(s, 1, Len(s) - 1)))

\* The loop of filter_overlapping_patterns over the sorted list: keep a
\* pattern unless it overlaps one already kept.
RECURSIVE KeepNonOverlapping(_, _)
KeepNonOverlapping(sorted, filtered) ==
    IF sorted = <<>> THEN filtered
    ELSE LET p        == Head(sorted)
             overlaps == \E k \in 1..Len(filtered) : _patterns_overlap(p, filtered[k])
         IN  KeepNonOverlapping(Tail(sorted),
                                IF overlaps THEN filtered ELSE Append(filtered, p))

\* BasePattern.filter_overlapping_patterns
filter_overlapping_patterns(ps) ==
    IF ps = <<>> THEN <<>>
    ELSE KeepNonOverlapping(SortDescending(ps), <<>>)

\* The scan loop of detect from window i (1-based) on: the bullish check, then
\* the bearish check, window by window.
RECURSIVE ScanWindows(_, _)
ScanWindows(d, i) ==
    IF i > Len(d) - 2 THEN <<>>
    ELSE _detect_bullish_fvg(d[i], d[i + 1], d[i + 2])
         \o _detect_bearish_fvg(d[i], d[i + 1], d[i + 2])
         \o ScanWindows(d, i + 1)

\* start_idx = max(0, len(df) - self.lookback_candles), 0-based
StartIdx(d, lookback) == Max2(0, Len(d) - lookback)

\* The candidate list of detect, before the overlap filter.
DetectCandidates(d, lookback) ==
    LET sorted == prepare_dataframe(d)
    IN  IF Len(sorted) < 3 THEN <<>>
        ELSE ScanWindows(sorted, StartIdx(sorted, lookback) + 1)

\* FairValueGap.detect
detect(d, lookback) ==
    filter_overlapping_patterns(DetectCandidates(d, lookback))

-----------------------------------------------------------------------------
(* Chart structure analyzer: calculate_dynamic_take_profits                *)
(*                                                                         *)
(* The function reads its candle argument only through find_swing_points   *)
(* and find_volume_clusters; the model takes what those two return (the    *)
(* swing highs and lows in index order, the cluster mid prices in the      *)
(* order find_volume_clusters returns them) as the input.  Prices are      *)
(* integers; a target's rr_ratio is held as the reward distance, i.e. in   *)
(* units of 1/risk, so rr_ratio >= 1.5 reads 2 * reward >= 3 * risk.       *)

\* Most swing points (highs and lows together) and most volume clusters.
MaxSwings == 3
MaxVolClusters == 1

\* Largest max_levels a caller passes (the signal generator passes 3).
MaxLevels == 3

\* Input menus.  Swing prices are multiples of 12 so that the mean of a
\* cluster of up to four of them is an integer.
EntryMenu     == {12010}
RiskMenu      == {4, 40, 800}
SwingHighMenu == {12096, 12120, 12168, 12480}
SwingLowMenu  == {11904, 11892, 11840}
VolMidMenu    == {12200, 12240, 11800}

RECURSIVE SumPrices(_)
SumPrices(ps) == IF ps = <<>> THEN 0 ELSE Head(ps) + SumPrices(Tail(ps))

\* tolerance=0.002, the default every call of the program uses, as the
\* fraction <<1, 500>>.
DefaultTolerance == <<1, 500>>

\* A slip in the inner loop: used_indices is not consulted.
RECURSIVE Mut_ClusterMembers(_, _, _, _, _)
Mut_ClusterMembers(points, i, j, used, tolerance) ==
    IF j > Len(points) THEN {}
    ELSE IF Abs(points[i] - points[j]) * tolerance[2] <= tolerance[1] * points[i]
         THEN {j} \cup Mut_ClusterMembers(points, i, j + 1, used, tolerance)
         ELSE Mut_ClusterMembers(points, i, j + 1, used, tolerance)

\* The inner loop of find_equal_levels for the seed at position i: the later
\* points not yet used whose relative distance to the seed,
\* abs(price1 - price2) / price1, is <= tolerance (a fraction <<num, den>>),
\* scanned from position j on.
RECURSIVE ClusterMembers(_, _, _, _, _)
ClusterMembers(points, i, j, used, tolerance) ==
    IF j > Len(points) THEN {}
    ELSE IF /\ j \notin used
            /\ Abs(points[i] - points[j]) * tolerance[2] <= tolerance[1] * points[i]
         THEN {j} \cup ClusterMembers(points, i, j + 1, used, tolerance)
         ELSE ClusterMembers(points, i, j + 1, used, tolerance)

\* The prices of the points at the positions in members.
RECURSIVE PricesAt(_, _)
PricesAt(points, members) ==
    IF members = {} THEN <<>>
    ELSE <<points[CHOOSE m \in members : \A x \in members : m <= x]>>
         \o PricesAt(points, members \ {CHOOSE m \in members : \A x \in members : m <= x})

\* The level of the cluster made of the seed at position i and members: the
\* mean price and the number of touches.
ClusterLevel(points, i, members, type) ==
    [ price    |-> (points[i] + SumPrices(PricesAt(points, members)))
                       \div (1 + Cardinality(members)),
      count    |-> 1 + Cardinality(members),
      type     |-> type,
      strength |-> 1 + Cardinality(members) ]

\* The outer loop of find_equal_levels from position i on; EqualLevelsWith is
\* its body once the cluster of the seed at i is known.
RECURSIVE EqualLevelsFrom(_, _, _, _, _)
RECURSIVE EqualLevelsWith(_, _, _, _, _, _)
EqualLevelsWith(points, i, used, type, members, tolerance) ==
    IF 1 + Cardinality(members) >= 2
    THEN <<ClusterLevel(points, i, members, type)>>
         \o EqualLevelsFrom(points, i + 1, used \cup members, type, tolerance)
    ELSE EqualLevelsFrom(points, i + 1, used \cup members, type, tolerance)

EqualLevelsFrom(points, i, used, type, tolerance) ==
    IF i > Len(points) THEN <<>>
    ELSE IF i \in used THEN EqualLevelsFrom(points, i + 1, used, type, tolerance)
    ELSE EqualLevelsWith(points, i, used, type,
                         ClusterMembers(points, i, i + 1, used, tolerance), tolerance)

\* find_equal_levels(swing_points, tolerance) on the prices of the points.
find_equal_levels(points, type, tolerance) ==
    IF Len(points) < 2 THEN <<>> ELSE EqualLevelsFrom(points, 1, {}, type, tolerance)

\* 10 ** int(log10(price)) for price >= 1.
RECURSIVE Magnitude(_)
Magnitude(price) == IF price < 10 THEN 1 ELSE 10 * Magnitude(price \div 10)

\* The levels find_round_numbers collects before removing duplicates: for each
\* scale, the multiple of the scale at or below the price and the next one,
\* kept when non-zero and within max_distance_pct per cent of the price.
RoundCandidates(price, max_distance_pct) ==
    LET mag    == Magnitude(price)
        scales == <<mag, mag \div 10, mag \div 100>>
        lower(sc) == (price \div sc) * sc
        pair(sc)  == <<lower(sc), lower(sc) + sc>>
        all    == pair(scales[1]) \o pair(scales[2]) \o pair(scales[3])
    IN  SelectSeq(all, LAMBDA level :
            level # 0 /\ Abs(level - price) * 100 <= max_distance_pct * price)

\* The first occurrence of each value of s, in order.
RECURSIVE RemoveDuplicates(_, _)
RemoveDuplicates(s, seen) ==
    IF s = <<>> THEN <<>>
    ELSE IF Head(s) \in seen THEN RemoveDuplicates(Tail(s), seen)
    ELSE <<Head(s)>> \o RemoveDuplicates(Tail(s), seen \cup {Head(s)})

\* list.sort(key=...) and sorted(): ascending and stable.  The items come
\* paired with their keys, <<key, item>>, a key being a pair of integers
\* compared as Python compares tuples.
KeyLess(k1, k2) == k1[1] < k2[1] \/ (k1[1] = k2[1] /\ k1[2] < k2[2])

\* The place of pairs[k] in the sorted list: after every item of smaller key
\* and after the earlier items of equal key.
SortedPlace(pairs, k) ==
    Cardinality({j \in 1..Len(pairs) :
                    \/ KeyLess(pairs[j][1], pairs[k][1])
                    \/ (pairs[j][1] = pairs[k][1] /\ j <= k)})

\* The items of the pairs, each put at its place.
PlaceItems(pairs, places) ==
    SubSeq([r \in 1..Len(pairs) |->
               pairs[CHOOSE k \in 1..Len(pairs) : places[k] = r][2]],
           1, Len(pairs))

\* The places of the pairs, in list order.
SortedPlaces(pairs) ==
    SubSeq([k \in 1..Len(pairs) |-> SortedPlace(pairs, k)], 1, Len(pairs))

\* The items of the pairs, sorted by key, as a list.
SortAscending(pairs) ==
    PlaceItems(SubSeq(pairs, 1, Len(pairs)), SortedPlaces(SubSeq(pairs, 1, Len(pairs))))

\* unique_levels.sort(key=distance_pct)
SortByDistance(levels, price) ==
    SortAscending([k \in 1..Len(levels) |-> << <<Abs(levels[k] - price), 0>>, levels[k] >>])

\* find_round_numbers(price, max_distance_pct): the prices of the levels,
\* sorted by distance from the price.
find_round_numbers(price, max_distance_pct) ==
    SortByDistance(RemoveDuplicates(RoundCandidates(price, max_distance_pct), {}), price)

\* rr >= num/den for a reward distance rr and the call's risk.
RRAtLeast(rr, risk, num, den) == rr * den >= num * risk

\* A slip in the candidate filter: the minimum R:R taken as 1.0 instead of 1.5.
Mut_TargetsFrom(prices, strengths, type, entry, risk, long) ==
    LET idx == SelectSeq([k \in 1..Len(prices) |-> k], LAMBDA k :
                   /\ IF long THEN prices[k] > entry ELSE prices[k] < entry
                   /\ RRAtLeast(Abs(prices[k] - entry), risk, 1, 1))
    IN  [n \in 1..Len(idx) |->
            [ price    |-> prices[idx[n]],
              rr_ratio |-> Abs(prices[idx[n]] - entry),
              type     |-> type,
              strength |-> strengths[idx[n]] ]]

\* One source of targets: the levels of `prices` strictly on the profitable
\* side of entry whose rr is at least 1.5, as target dictionaries.
TargetsFrom(prices, strengths, type, entry, risk, long) ==
    LET idx == SelectSeq([k \in 1..Len(prices) |-> k], LAMBDA k :
                   /\ IF long THEN prices[k] > entry ELSE prices[k] < entry
                   /\ RRAtLeast(Abs(prices[k] - entry), risk, 3, 2))
    IN  [n \in 1..Len(idx) |->
            [ price    |-> prices[idx[n]],
              rr_ratio |-> Abs(prices[idx[n]] - entry),
              type     |-> type,
              strength |-> strengths[idx[n]] ]]

\* The targets of one kind of level, each with the strength the code gives
\* that kind.
SwingTargets(swings, type, a) ==
    TargetsFrom(swings, [k \in 1..Len(swings) |-> 2], type,
                a.entry_price, Abs(a.entry_price - a.stop_loss), a.direction = "long")

EqualTargets(levels, type, a) ==
    TargetsFrom([k \in 1..Len(levels) |-> levels[k].price],
                [k \in 1..Len(levels) |-> levels[k].strength + 2], type,
                a.entry_price, Abs(a.entry_price - a.stop_loss), a.direction = "long")

PlainTargets(prices, type, a) ==
    TargetsFrom(prices, [k \in 1..Len(prices) |-> 1], type,
                a.entry_price, Abs(a.entry_price - a.stop_loss), a.direction = "long")

\* potential_targets: swing points, equal levels, round numbers, volume
\* clusters, in that order; highs for a long trade, lows for a short one.
PotentialTargets(a) ==
    IF a.direction = "long"
    THEN SwingTargets(a.swing_highs, "swing_high", a)
         \o EqualTargets(find_equal_levels(a.swing_highs, "swing_high", DefaultTolerance), "equal_high", a)
         \o PlainTargets(find_round_numbers(a.entry_price, 10), "round_number", a)
         \o PlainTargets(a.vol_mids, "volume_cluster", a)
    ELSE SwingTargets(a.swing_lows, "swing_low", a)
         \o EqualTargets(find_equal_levels(a.swing_lows, "swing_low", DefaultTolerance), "equal_low", a)
         \o PlainTargets(find_round_numbers(a.entry_price, 10), "round_number", a)
         \o PlainTargets(a.vol_mids, "volume_cluster", a)

\* list.remove(x): the list without its first element equal to x.
RECURSIVE RemoveFirst(_, _)
RemoveFirst(s, x) ==
    IF s = <<>> THEN <<>>
    ELSE IF Head(s) = x THEN Tail(s)
    ELSE <<Head(s)>> \o RemoveFirst(Tail(s), x)

\* abs(target.price - unique.price) / entry_price < 0.005
WithinHalfPercent(t, u, entry) == Abs(t.price - u.price) * 200 < entry

\* A slip in the de-duplication: a target of equal strength is kept next to
\* the unique target it is near.
Mut_DedupStep(unique, target, entry) ==
    LET near == { k \in 1..Len(unique) : WithinHalfPercent(target, unique[k], entry) }
    IN  IF near = {} THEN Append(unique, target)
        ELSE LET first == unique[CHOOSE k \in near : \A m \in near : k <= m]
             IN  IF target.strength > first.strength
                 THEN Append(RemoveFirst(unique, first), target)
                 ELSE IF target.strength = first.strength THEN Append(unique, target)
                 ELSE unique

\* One pass of the de-duplication loop body for `target`: the first unique
\* target within 0.5 % decides; a stronger target replaces it, any other
\* target is dropped.
DedupStep(unique, target, entry) ==
    LET near == { k \in 1..Len(unique) : WithinHalfPercent(target, unique[k], entry) }
    IN  IF near = {} THEN Append(unique, target)
        ELSE LET first == unique[CHOOSE k \in near : \A m \in near : k <= m]
             IN  IF target.strength > first.strength
                 THEN Append(RemoveFirst(unique, first), target)
                 ELSE unique

RECURSIVE Deduplicate(_, _, _)
Deduplicate(potential, unique, entry) ==
    IF potential = <<>> THEN unique
    ELSE Deduplicate(Tail(potential), DedupStep(unique, Head(potential), entry), entry)

\* unique_targets.sort(key=(rr_ratio, strength))
SortByRRAndStrength(targets) ==
    SortAscending([k \in 1..Len(targets) |->
                      << <<targets[k].rr_ratio, targets[k].strength>>, targets[k] >>])

\* unique_targets after the sort by (rr_ratio, strength).
UniqueTargets(a) ==
    SortByRRAndStrength(Deduplicate(PotentialTargets(a), <<>>, a.entry_price))

\* A slip in the fallback: the multiples taken as 1, 2 and 3 times the risk.
Mut_FallbackTargets(a) ==
    LET risk == Abs(a.entry_price - a.stop_loss)
        at(k) == [ price    |-> IF a.direction = "long" THEN a.entry_price + risk * k
                                ELSE a.entry_price - risk * k,
                   rr_ratio |-> k * risk,
                   type     |-> "fallback",
                   strength |-> 0 ]
    IN  <<at(1), at(2), at(3)>>

\* The fallback targets at 2, 3 and 4 times the risk.
FallbackTargets(a) ==
    LET risk == Abs(a.entry_price - a.stop_loss)
        at(k) == [ price    |-> IF a.direction = "long" THEN a.entry_price + risk * k
                                ELSE a.entry_price - risk * k,
                   rr_ratio |-> k * risk,
                   type     |-> "fallback",
                   strength |-> 0 ]
    IN  <<at(2), at(3), at(4)>>

\* rr_buckets, as (min, max) in halves: near, mid, far.
RRBuckets == << <<3, 5>>, <<5, 8>>, <<8, 200>> >>

\* max(bucket_targets, key=strength): the first target of greatest strength.
StrongestFirst(bucket) ==
    bucket[CHOOSE k \in 1..Len(bucket) :
              /\ \A m \in 1..Len(bucket) : bucket[m].strength <= bucket[k].strength
              /\ \A m \in 1..(k - 1) : bucket[m].strength < bucket[k].strength]

\* The loop over rr_buckets from bucket b on.
RECURSIVE SelectFromBuckets(_, _, _, _, _)
SelectFromBuckets(unique, risk, b, selected, max_levels) ==
    IF b > Len(RRBuckets) THEN selected
    ELSE LET bucket == SelectSeq(unique, LAMBDA t :
                           /\ RRAtLeast(t.rr_ratio, risk, RRBuckets[b][1], 2)
                           /\ ~ RRAtLeast(t.rr_ratio, risk, RRBuckets[b][2], 2))
             sel    == IF bucket # <<>> THEN Append(selected, StrongestFirst(bucket))
                       ELSE selected
         IN  IF Len(sel) >= max_levels THEN sel
             ELSE SelectFromBuckets(unique, risk, b + 1, sel, max_levels)

\* The while loop that tops the selection up from the remaining targets.  An
\* iteration appends the first target not equal to a selected one; when every
\* target equals a selected one the iteration changes nothing and the loop
\* condition stays true: the loop does not end.
RECURSIVE FillUp(_, _, _)
FillUp(unique, selected, max_levels) ==
    IF ~ (Len(selected) < max_levels /\ Len(unique) > Len(selected))
    THEN [ends |-> TRUE, selected |-> selected]
    ELSE LET fresh == { k \in 1..Len(unique) :
                          \A m \in 1..Len(selected) : selected[m] # unique[k] }
         IN  IF fresh = {} THEN [ends |-> FALSE, selected |-> selected]
             ELSE FillUp(unique,
                         Append(selected, unique[CHOOSE k \in fresh : \A m \in fresh : k <= m]),
                         max_levels)

\* selected_targets.sort(key=rr_ratio)
SortByRR(targets) ==
    SortAscending([k \in 1..Len(targets) |-> << <<targets[k].rr_ratio, 0>>, targets[k] >>])

\* sorted_list[:max_levels]
FirstLevels(targets, max_levels) ==
    SubSeq(targets, 1, IF max_levels < Len(targets) THEN max_levels ELSE Len(targets))

\* The end of the call once the top-up loop is over.
ReturnSelected(filled, max_levels) ==
    [ ends |-> filled.ends, targets |-> FirstLevels(SortByRR(filled.selected), max_levels) ]

\* The selection from the sorted unique_targets on: the fallback, or the
\* buckets, the top-up, the final sort and the cut to max_levels.
SelectTargets(a, unique) ==
    IF unique = <<>>
    THEN [ ends |-> TRUE, targets |-> FirstLevels(FallbackTargets(a), a.max_levels) ]
    ELSE ReturnSelected(FillUp(unique,
                               SelectFromBuckets(unique, Abs(a.entry_price - a.stop_loss),
                                                 1, <<>>, a.max_levels),
                               a.max_levels),
                        a.max_levels)

\* calculate_dynamic_take_profits: [ends, targets]; ends is FALSE when the
\* call does not return.
calculate_dynamic_take_profits(a) == SelectTargets(a, UniqueTargets(a))

-----------------------------------------------------------------------------
(* Backtest engine                                                         *)
(*                                                                         *)
(* Fixed point.  Signal and candle prices are whole dollars.  A price with *)
(* slippage applied is held in units of 1/SlippageDiv dollar, money        *)
(* (capital, costs, commissions, pnl, equity) in units of 1/MoneyScale     *)
(* dollar.  With position sizes that are multiples of 20 every amount the  *)
(* engine computes is a whole number of money units, so the integer        *)
(* arithmetic below is exact.                                              *)

\* backtest_config defaults: initial_capital 10000, commission_percent 0.1
\* (a fraction 1/1000 of the notional), slippage_percent 0.05 (1/2000 of the
\* price).
initial_capital == 10000
CommissionDiv   == 1000
SlippageDiv     == 2000

\* Money units per dollar, and per unit of (size x slipped price).
MoneyScale    == 100000
MoneyPerPrice == MoneyScale \div SlippageDiv

\* Longest signal list passed to run_backtest, and most calls of run_backtest
\* on one engine.
MaxSignals == 3
MaxRuns == 2

\* A fraction num/den, for the ratios the engine reports; FracZero is the
\* literal 0 the code stores in such a field.  A field the code holds as a
\* percentage (pnl_percent, total_return_percent, win_rate, max_drawdown)
\* holds the ratio itself here: the percentage is 100 times it.
Frac(num, den) == <<num, den>>
FracZero == <<0, 1>>
IsZeroFrac(f) == f[1] = 0

\* a/b < c/d for a, c >= 0 and b, d > 0, by the integer parts and then the
\* reciprocals of the remainders (no product is formed).
RECURSIVE FracLess(_, _, _, _)
FracLess(a, b, c, d) ==
    IF a \div b # c \div d THEN a \div b < c \div d
    ELSE IF c % d = 0 THEN FALSE
    ELSE IF a % b = 0 THEN TRUE
    ELSE FracLess(d, c % d, b, a % b)

\* The signals the caller draws from.  Every signal carries generated_at
\* (scripts/backtest.py sets it before run_backtest is called); take_profit_1
\* may be unset: the field holds <<>> for None and <<price>> otherwise.
SignalMenu ==
    LET sig(symbol, direction, stop, tp, size, at) ==
            [ symbol |-> symbol, timeframe |-> "1h", direction |-> direction,
              entry_price |-> 100, stop_loss |-> stop, take_profit_1 |-> tp,
              position_size |-> size, generated_at |-> at ]
    IN  { sig("BTC", "long", 95, <<110>>, 100, 1),
          sig("BTC", "long", 95, <<110>>, 60, 1),
          sig("BTC", "long", 95, <<110>>, 60, 3),
          sig("BTC", "short", 106, <<96>>, 60, 2),
          sig("ETH", "long", 95, <<110>>, 40, 2),
          sig("BTC", "long", 95, <<>>, 40, 2),
          sig("BTC", "short", 106, <<96>>, 40, 4) }

\* The candle series the caller draws from, all for ("BTC", "1h"); the engine
\* reads timestamp, high and low.
SeriesMenu ==
    LET c(t, h, l) == [timestamp |-> t, high |-> h, low |-> l]
    IN  { << c(1, 101, 99), c(2, 105, 97), c(3, 111, 94), c(4, 112, 100) >>,
          << c(1, 101, 99), c(2, 110, 96), c(3, 104, 94), c(4, 103, 97) >>,
          << c(1, 101, 99), c(2, 104, 97), c(3, 104, 97), c(4, 103, 97) >> }

\* _apply_slippage without its is_exit branch: an exit slipped like an entry.
Mut_apply_slippage(price, direction, is_exit) ==
    IF direction = "long" THEN price * SlippageDiv + price
    ELSE price * SlippageDiv - price

\* BacktestEngine._apply_slippage, in units of 1/SlippageDiv dollar.
_apply_slippage(price, direction, is_exit) ==
    LET slippage == price
        scaled   == price * SlippageDiv
    IN  IF direction = "long"
        THEN (IF ~ is_exit THEN scaled + slippage ELSE scaled - slippage)
        ELSE (IF ~ is_exit THEN scaled - slippage ELSE scaled + slippage)

\* A comparison of a candle price with a stop or target: Python raises
\* TypeError when the latter is None.
Comparable(level) == level # <<>>

\* _check_exit with the two checks in the other order: the target first.
Mut_check_exit(position, candle) ==
    LET stop_loss   == position.stop_loss
        take_profit == position.take_profit
        exit(price, reason) ==
            [ kind |-> "exit", exit_price |-> price,
              exit_time |-> candle.timestamp, exit_reason |-> reason ]
    IN  IF ~ Comparable(take_profit) THEN [kind |-> "raise"]
        ELSE IF position.direction = "long"
        THEN IF candle.high >= take_profit[1] THEN exit(take_profit[1], "take_profit")
             ELSE IF candle.low <= stop_loss THEN exit(stop_loss, "stop_loss")
             ELSE [kind |-> "none"]
        ELSE IF candle.low <= take_profit[1] THEN exit(take_profit[1], "take_profit")
             ELSE IF candle.high >= stop_loss THEN exit(stop_loss, "stop_loss")
             ELSE [kind |-> "none"]

\* BacktestEngine._check_exit: [kind |-> "none"], an exit, or
\* [kind |-> "raise"] when a comparison raises TypeError.
_check_exit(position, candle) ==
    LET stop_loss   == position.stop_loss
        take_profit == position.take_profit
        exit(price, reason) ==
            [ kind |-> "exit", exit_price |-> price,
              exit_time |-> candle.timestamp, exit_reason |-> reason ]
    IN  IF position.direction = "long"
        THEN IF candle.low <= stop_loss THEN exit(stop_loss, "stop_loss")
             ELSE IF ~ Comparable(take_profit) THEN [kind |-> "raise"]
             ELSE IF candle.high >= take_profit[1] THEN exit(take_profit[1], "take_profit")
             ELSE [kind |-> "none"]
        ELSE IF candle.high >= stop_loss THEN exit(stop_loss, "stop_loss")
             ELSE IF ~ Comparable(take_profit) THEN [kind |-> "raise"]
             ELSE IF candle.low <= take_profit[1] THEN exit(take_profit[1], "take_profit")
             ELSE [kind |-> "none"]

\* The exit loop started one candle late: the candle after the entry candle
\* is not examined.
RECURSIVE Mut_ScanForExit(_, _, _)
Mut_ScanForExit(position, df_after, i) ==
    IF i + 1 > Len(df_after) THEN [kind |-> "none"]
    ELSE LET r == _check_exit(position, df_after[i + 1])
         IN  IF r.kind # "none" THEN r ELSE Mut_ScanForExit(position, df_after, i + 1)

\* The exit loop closing at the stop on the last candle what never fired.
RECURSIVE Mut_ScanForExitAtEnd(_, _, _)
Mut_ScanForExitAtEnd(position, df_after, i) ==
    IF i > Len(df_after)
    THEN [ kind |-> "exit", exit_price |-> position.stop_loss,
           exit_time |-> df_after[Len(df_after)].timestamp, exit_reason |-> "end_of_data" ]
    ELSE LET r == _check_exit(position, df_after[i])
         IN  IF r.kind # "none" THEN r ELSE Mut_ScanForExitAtEnd(position, df_after, i + 1)

\* The loop of _process_signal over df_after from (1-based) candle i on: the
\* first result of _check_exit that is not None, or "none" at the end of the
\* data.
RECURSIVE ScanForExit(_, _, _)
ScanForExit(position, df_after, i) ==
    IF i > Len(df_after) THEN [kind |-> "none"]
    ELSE LET r == _check_exit(position, df_after[i])
         IN  IF r.kind # "none" THEN r ELSE ScanForExit(position, df_after, i + 1)

\* BacktestEngine._close_position: the capital, the trade record and the
\* equity point after the close.
_close_position(position, exit_info, cap) ==
    LET direction         == position.direction
        entry_price       == position.entry_price
        position_size     == position.position_size
        exit_price_actual == _apply_slippage(exit_info.exit_price, direction, TRUE)
        gross == IF direction = "long"
                 THEN (exit_price_actual - entry_price) * position_size * MoneyPerPrice
                 ELSE (entry_price - exit_price_actual) * position_size * MoneyPerPrice
        exit_cost   == position_size * exit_price_actual * MoneyPerPrice
        commission  == exit_cost \div CommissionDiv
        pnl         == gross - commission
        new_capital == cap + exit_cost
    IN  [ capital |-> new_capital,
          trade   |-> [ symbol        |-> position.signal.symbol,
                        direction     |-> direction,
                        entry_price   |-> entry_price,
                        exit_price    |-> exit_price_actual,
                        entry_time    |-> position.entry_time,
                        exit_time     |-> exit_info.exit_time,
                        exit_reason   |-> exit_info.exit_reason,
                        position_size |-> position_size,
                        pnl           |-> pnl,
                        pnl_percent   |-> Frac(pnl,
                                          position_size * entry_price * MoneyPerPrice) ],
          point   |-> [ timestamp |-> exit_info.exit_time,
                        equity    |-> new_capital + pnl ] ]

\* The capital check of _process_signal dropped: every entry is taken.
Mut_InsufficientCapital(total_entry_cost, cap) == FALSE

\* if total_entry_cost > self.capital
InsufficientCapital(total_entry_cost, cap) == total_entry_cost > cap

\* df[df["timestamp"] >= signal_time]
CandlesFrom(series, signal_time) ==
    SelectSeq(series, LAMBDA c : c.timestamp >= signal_time)

\* BacktestEngine._process_signal with self.capital = cap: the capital it
\* leaves, the trades and equity points it appends, and how it ended.
_process_signal(signal, data, cap) ==
    LET key  == <<signal.symbol, signal.timeframe>>
        skip(how) == [capital |-> cap, trades |-> <<>>, points |-> <<>>, outcome |-> how]
    IN  IF key \notin DOMAIN data THEN skip("no_data")
        ELSE
        LET df_after == CandlesFrom(data[key], signal.generated_at)
        IN  IF Len(df_after) < 2 THEN skip("no_entry")
            ELSE
            LET entry_price_actual == _apply_slippage(signal.entry_price, signal.direction, FALSE)
                position_size      == signal.position_size
                entry_cost         == position_size * entry_price_actual * MoneyPerPrice
                commission         == entry_cost \div CommissionDiv
                total_entry_cost   == entry_cost + commission
            IN  IF InsufficientCapital(total_entry_cost, cap) THEN skip("insufficient")
                ELSE
                LET deducted == cap - total_entry_cost
                    position == [ signal        |-> signal,
                                  entry_price   |-> entry_price_actual,
                                  position_size |-> position_size,
                                  direction     |-> signal.direction,
                                  entry_time    |-> df_after[1].timestamp,
                                  stop_loss     |-> signal.stop_loss,
                                  take_profit   |-> signal.take_profit_1 ]
                    exit_info == ScanForExit(position, df_after, 2)
                IN  IF exit_info.kind = "raise"
                    THEN [capital |-> deducted, trades |-> <<>>, points |-> <<>>,
                          outcome |-> "raised"]
                    ELSE IF exit_info.kind = "none"
                    THEN [capital |-> deducted, trades |-> <<>>, points |-> <<>>,
                          outcome |-> "open"]
                    ELSE LET closed == _close_position(position, exit_info, deducted)
                         IN  [capital |-> closed.capital, trades |-> <<closed.trade>>,
                              points |-> <<closed.point>>, outcome |-> "closed"]

\* The signals taken in input order, without the sort.
Mut_SortSignals(sigs) == [k \in 1..Len(sigs) |-> k]

\* reset() emptying the engine's lists in place instead of binding new ones.
Mut_reset(self) ==
    [ capital       |-> initial_capital * MoneyScale,
      closed_trades |-> <<>>,
      equity_curve  |-> <<>>,
      detached      |-> [trades |-> <<>>, equity_curve |-> <<>>] ]

\* BacktestEngine.reset on the engine state self: the capital and the two new
\* empty lists it binds; the lists bound before are detached as they are.
reset(self) ==
    [ capital       |-> initial_capital * MoneyScale,
      closed_trades |-> <<>>,
      equity_curve  |-> <<>>,
      detached      |-> [trades |-> self.closed_trades, equity_curve |-> self.equity_curve] ]

\* A returned dictionary read when its "trades" and "equity_curve" entries are
\* the list objects lists; the zero-valued dictionary has no such entries.
WithLists(result, lists) ==
    IF "trades" \in DOMAIN result
    THEN [result EXCEPT !.trades = lists.trades, !.equity_curve = lists.equity_curve]
    ELSE result

\* sorted(signals, key=generated_at): the positions of the signals in
\* processing order (sorted is stable).
SortSignals(sigs) ==
    SortAscending([k \in 1..Len(sigs) |-> << <<sigs[k].generated_at, 0>>, k >>])

RECURSIVE SumPnl(_)
SumPnl(trades) == IF trades = <<>> THEN 0 ELSE Head(trades).pnl + SumPnl(Tail(trades))

\* A slip in the drawdown loop: the fall is measured against the current
\* value instead of the peak.
RECURSIVE Mut_DrawdownFrom(_, _, _)
Mut_DrawdownFrom(equity, peak, max_dd) ==
    IF equity = <<>> THEN max_dd
    ELSE LET value    == Head(equity)
             new_peak == IF value > peak THEN value ELSE peak
             dd       == Frac(new_peak - value, value)
         IN  Mut_DrawdownFrom(Tail(equity), new_peak,
                              IF FracLess(max_dd[1], max_dd[2], dd[1], dd[2]) THEN dd ELSE max_dd)

\* BacktestEngine._calculate_max_drawdown: the largest fall of the equity
\* curve below its running peak, as a fraction of that peak.
RECURSIVE DrawdownFrom(_, _, _)
DrawdownFrom(equity, peak, max_dd) ==
    IF equity = <<>> THEN max_dd
    ELSE LET value    == Head(equity)
             new_peak == IF value > peak THEN value ELSE peak
             dd       == Frac(new_peak - value, new_peak)
         IN  DrawdownFrom(Tail(equity), new_peak,
                          IF FracLess(max_dd[1], max_dd[2], dd[1], dd[2]) THEN dd ELSE max_dd)

_calculate_max_drawdown(curve) ==
    IF curve = <<>> THEN FracZero
    ELSE LET equity == [k \in 1..Len(curve) |-> curve[k].equity]
         IN  DrawdownFrom(equity, equity[1], FracZero)

\* _calculate_results without its guard for an empty trade list.
Mut_calculate_results(cap, trades, curve) ==
    LET total_return == cap - initial_capital * MoneyScale
    IN  [ initial_capital |-> initial_capital * MoneyScale,
          final_capital   |-> cap,
          total_return    |-> total_return,
          total_return_percent |-> Frac(total_return, initial_capital * MoneyScale),
          total_trades    |-> Len(trades),
          max_drawdown    |-> _calculate_max_drawdown(curve),
          trades          |-> trades,
          equity_curve    |-> curve ]

\* BacktestEngine._calculate_results
_calculate_results(cap, trades, curve) ==
    IF trades = <<>>
    THEN [ total_return |-> 0, total_return_percent |-> FracZero, win_rate |-> FracZero,
           total_trades |-> 0, winning_trades |-> 0, losing_trades |-> 0,
           avg_win |-> FracZero, avg_loss |-> FracZero, profit_factor |-> FracZero,
           max_drawdown |-> FracZero, sharpe_ratio |-> 0 ]
    ELSE LET winning_trades == SelectSeq(trades, LAMBDA t : t.pnl > 0)
             losing_trades  == SelectSeq(trades, LAMBDA t : t.pnl <= 0)
             total_wins     == Len(winning_trades)
             total_losses   == Len(losing_trades)
             total_return   == cap - initial_capital * MoneyScale
             total_win_amount  == SumPnl(winning_trades)
             total_loss_amount == Abs(SumPnl(losing_trades))
         IN  [ initial_capital |-> initial_capital * MoneyScale,
               final_capital   |-> cap,
               total_return    |-> total_return,
               total_return_percent |-> Frac(total_return, initial_capital * MoneyScale),
               total_trades    |-> Len(trades),
               winning_trades  |-> total_wins,
               losing_trades   |-> total_losses,
               win_rate        |-> Frac(total_wins, Len(trades)),
               avg_win  |-> IF total_wins > 0 THEN Frac(SumPnl(winning_trades), total_wins)
                            ELSE FracZero,
               avg_loss |-> IF total_losses > 0 THEN Frac(SumPnl(losing_trades), total_losses)
                            ELSE FracZero,
               profit_factor |-> IF total_loss_amount > 0
                                 THEN Frac(total_win_amount, total_loss_amount)
                                 ELSE FracZero,
               max_drawdown |-> _calculate_max_drawdown(curve),
               trades       |-> trades,
               equity_curve |-> curve ]

------------------------------------------------------------------------------
(* Chart structure analyzer: find_swing_points and find_volume_clusters     *)
(*                                                                         *)
(* Candles carry a volume here.  Indices are 1-based: Python's index i is   *)
(* i + 1.  The code divides in floating point; the model divides integers  *)
(* and the candle series it is run on keep every quotient exact.           *)

Min2(a, b) == IF a <= b THEN a ELSE b

\* No other candle of the window [i - lookback, i + lookback] has a strictly
\* higher high.
IsSwingHigh(d, i, lookback) ==
    \A j \in Max2(1, i - lookback)..Min2(Len(d), i + lookback) :
        j = i \/ ~(d[j].high > d[i].high)

\* No other candle of the window has a strictly lower low.
IsSwingLow(d, i, lookback) ==
    \A j \in Max2(1, i - lookback)..Min2(Len(d), i + lookback) :
        j = i \/ ~(d[j].low < d[i].low)

\* for i in range(lookback, len(df) - lookback): the indices examined.
SwingRange(d, lookback) == (lookback + 1)..(Len(d) - lookback)

\* The 'price' column of one of the two frames find_swing_points returns, in
\* index order; the empty sequence is the empty DataFrame.
SwingPrices(d, lookback, highs) ==
    LET idx == SelectSeq([k \in 1..Len(d) |-> k], LAMBDA i :
                   /\ i \in SwingRange(d, lookback)
                   /\ IF highs THEN IsSwingHigh(d, i, lookback)
                               ELSE IsSwingLow(d, i, lookback))
    IN  [k \in 1..Len(idx) |-> IF highs THEN d[idx[k]].high ELSE d[idx[k]].low]

find_swing_points(d, lookback) ==
    [ highs |-> SwingPrices(d, lookback, TRUE),
      lows  |-> SwingPrices(d, lookback, FALSE) ]

\* 100 * df['volume'].quantile(pct / 100), pandas' linear interpolation
\* between the two order statistics around position (pct / 100) * (n - 1).
VolumeThreshold(d, pct) ==
    LET sorted == SortAscending([k \in 1..Len(d) |-> <<<<d[k].volume, 0>>, d[k].volume>>])
        pos    == pct * (Len(d) - 1)
        lo     == (pos \div 100) + 1
        part   == pos % 100
    IN  IF part = 0 THEN 100 * sorted[lo]
        ELSE 100 * sorted[lo] + part * (sorted[lo + 1] - sorted[lo])

\* df[df['volume'] >= volume_threshold], the threshold given times 100
HighVolume(d, threshold) == SelectSeq(d, LAMBDA c : c.volume * 100 >= threshold)

\* high_vol.sort_values('price_mid'); price_mid = (high + low) / 2
SortByPriceMid(rows) ==
    SortAscending([k \in 1..Len(rows) |-> <<<<rows[k].high + rows[k].low, 0>>, rows[k]>>])

RECURSIVE SumHighLow(_)
SumHighLow(rows) ==
    IF rows = <<>> THEN 0
    ELSE Head(rows).high + Head(rows).low + SumHighLow(Tail(rows))

RECURSIVE SumVolume(_)
SumVolume(rows) ==
    IF rows = <<>> THEN 0 ELSE Head(rows).volume + SumVolume(Tail(rows))

\* One cluster: chunk['price_mid'].mean() and chunk['volume'].sum()
VolumeCluster(chunk) ==
    [ price_mid    |-> SumHighLow(chunk) \div (2 * Len(chunk)),
      total_volume |-> SumVolume(chunk),
      type         |-> "volume_cluster" ]

\* for i in range(0, len, max(1, len // num_clusters)):
\*     chunk = sorted_vol.iloc[i:i + len // num_clusters]
\* with len >= num_clusters, so that the step is the chunk size.
ChunkClusters(sorted_vol, num_clusters) ==
    LET size  == Len(sorted_vol) \div num_clusters
        count == (Len(sorted_vol) + size - 1) \div size
    IN  SubSeq([k \in 1..count |->
                   VolumeCluster(SubSeq(sorted_vol, (k - 1) * size + 1,
                                        Min2(Len(sorted_vol), k * size)))],
               1, count)

\* clusters.sort(key=total_volume, reverse=True); clusters[:num_clusters]
TopClusters(clusters, num_clusters) ==
    SubSeq(SortAscending([k \in 1..Len(clusters) |->
                             <<<<-clusters[k].total_volume, 0>>, clusters[k]>>]),
           1, Min2(Len(clusters), num_clusters))

ClustersOf(high_vol, num_clusters) ==
    IF Len(high_vol) < num_clusters THEN <<>>
    ELSE TopClusters(ChunkClusters(SortByPriceMid(high_vol), num_clusters), num_clusters)

find_volume_clusters(d, num_clusters, min_volume_percentile) ==
    IF d = <<>> THEN <<>>
    ELSE ClustersOf(HighVolume(d, VolumeThreshold(d, min_volume_percentile)), num_clusters)

\* lookback=15 in calculate_dynamic_take_profits' call of find_swing_points
SwingLookback == 15

\* find_volume_clusters' defaults
NumClusters == 5
MinVolumePercentile == 70

\* The arguments record of calculate_dynamic_take_profits for a candle
\* series: what it reads from df through the two functions above.
ChartArgs(entry_price, stop_loss, direction, d, max_levels) ==
    [ entry_price |-> entry_price,
      stop_loss   |-> stop_loss,
      direction   |-> direction,
      swing_highs |-> find_swing_points(d, SwingLookback).highs,
      swing_lows  |-> find_swing_points(d, SwingLookback).lows,
      vol_mids    |-> [k \in 1..Len(find_volume_clusters(d, NumClusters, MinVolumePercentile)) |->
                          find_volume_clusters(d, NumClusters, MinVolumePercentile)[k].price_mid],
      max_levels  |-> max_levels ]

------------------------------------------------------------------------------
(* Signal generator                                                        *)

\* SignalGenerator.__init__ defaults
min_risk_reward == 2
account_size == 10000
max_risk_percent == 1

\* stop_loss_atr_multiplier = 1.5, as the fraction AtrMultNum / AtrMultDen
AtrMultNum == 3
AtrMultDen == 2

\* period=14 in _generate_fvg_signal's call of _calculate_atr
AtrPeriod == 14

RECURSIVE MaxHigh(_)
MaxHigh(d) ==
    IF Len(d) = 1 THEN d[1].high ELSE Max2(Head(d).high, MaxHigh(Tail(d)))

RECURSIVE MinLow(_)
MinLow(d) ==
    IF Len(d) = 1 THEN d[1].low ELSE Min2(Head(d).low, MinLow(Tail(d)))

\* One row of tr: the largest of high - low, |high - previous close| and
\* |low - previous close|; the first row has no previous close and max skips
\* the missing values.
TrueRange(d, i) ==
    IF i = 1 THEN d[1].high - d[1].low
    ELSE Max2(d[i].high - d[i].low,
              Max2(Abs(d[i].high - d[i - 1].close), Abs(d[i].low - d[i - 1].close)))

RECURSIVE SumTrueRange(_, _, _)
SumTrueRange(d, from, to) ==
    IF from > to THEN 0 ELSE TrueRange(d, from) + SumTrueRange(d, from + 1, to)

\* SignalGenerator._calculate_atr, on a non-empty frame, as a fraction: the
\* whole range over the number of candles when there are fewer than period
\* candles, else the mean of the last period true ranges.
_calculate_atr(d, period) ==
    IF Len(d) < period
    THEN Frac(MaxHigh(d) - MinLow(d), Len(d))
    ELSE Frac(SumTrueRange(d, Len(d) - period + 1, Len(d)), period)

\* atr * self.stop_loss_atr_multiplier
StopDistance(atr) == (atr[1] * AtrMultNum) \div (atr[2] * AtrMultDen)

\* utils.calculate_risk_reward: 0 when the risk is 0, else reward / risk
calculate_risk_reward(entry_price, stop_loss, take_profit) ==
    IF Abs(entry_price - stop_loss) = 0 THEN FracZero
    ELSE Frac(Abs(take_profit - entry_price), Abs(entry_price - stop_loss))

Mut_calculate_position_size(entry_price, stop_loss, risk_amount) ==
    IF entry_price = 0 THEN FracZero ELSE Frac(risk_amount, entry_price)

\* utils.calculate_position_size: 0 when the risk per unit is 0, else
\* risk_amount / risk_per_unit
calculate_position_size(entry_price, stop_loss, risk_amount) ==
    IF Abs(entry_price - stop_loss) = 0 THEN FracZero
    ELSE Frac(risk_amount, Abs(entry_price - stop_loss))

\* rr_ratio < minimum, for a ratio of non-negative terms
RatioBelow(ratio, minimum) == ratio[1] < minimum * ratio[2]

\* The signal dictionary, or <<>> for None, given the levels and the targets
\* calculate_dynamic_take_profits returned.
Mut_SignalFrom(pattern, symbol, timeframe, trade_direction, entry_price, stop_loss, tp_targets) ==
    IF tp_targets = <<>> \/ tp_targets[1].price = 0 THEN <<>>
    ELSE <<[ symbol            |-> symbol,
             timeframe         |-> timeframe,
             direction         |-> trade_direction,
             entry_price       |-> entry_price,
             stop_loss         |-> stop_loss,
             take_profit_1     |-> tp_targets[1].price,
             risk_reward_ratio |-> calculate_risk_reward(entry_price, stop_loss, tp_targets[1].price),
             risk_amount       |-> (account_size * max_risk_percent) \div 100,
             position_size     |-> calculate_position_size(entry_price, stop_loss,
                                       (account_size * max_risk_percent) \div 100),
             status            |-> "pending",
             notes             |-> [ direction |-> pattern.direction,
                                     gap_low   |-> pattern.price_low,
                                     gap_high  |-> pattern.price_high ] ]>>

SignalFrom(pattern, symbol, timeframe, trade_direction, entry_price, stop_loss, tp_targets) ==
    IF tp_targets = <<>> \/ tp_targets[1].price = 0 THEN <<>>
    ELSE IF RatioBelow(calculate_risk_reward(entry_price, stop_loss, tp_targets[1].price),
                       min_risk_reward) THEN <<>>
    ELSE <<[ symbol            |-> symbol,
             timeframe         |-> timeframe,
             direction         |-> trade_direction,
             entry_price       |-> entry_price,
             stop_loss         |-> stop_loss,
             take_profit_1     |-> tp_targets[1].price,
             risk_reward_ratio |-> calculate_risk_reward(entry_price, stop_loss, tp_targets[1].price),
             risk_amount       |-> (account_size * max_risk_percent) \div 100,
             position_size     |-> calculate_position_size(entry_price, stop_loss,
                                       (account_size * max_risk_percent) \div 100),
             status            |-> "pending",
             notes             |-> [ direction |-> pattern.direction,
                                     gap_low   |-> pattern.price_low,
                                     gap_high  |-> pattern.price_high ] ]>>

\* The entry price: a quarter of the gap inside its near edge.
EntryPrice(pattern) ==
    IF pattern.direction = "bullish"
    THEN pattern.price_low + (pattern.price_high - pattern.price_low) \div 4
    ELSE pattern.price_high - (pattern.price_high - pattern.price_low) \div 4

\* The stop: the ATR multiple beyond the gap's far edge.
StopLoss(pattern, atr) ==
    IF pattern.direction = "bullish"
    THEN pattern.price_low - StopDistance(atr)
    ELSE pattern.price_high + StopDistance(atr)

TradeDirection(pattern) == IF pattern.direction = "bullish" THEN "long" ELSE "short"

\* tp_targets = calculate_dynamic_take_profits(entry_price, stop_loss,
\*                  trade_direction, df, max_levels=3)
TakeProfitsOf(pattern, d) ==
    calculate_dynamic_take_profits(
        ChartArgs(EntryPrice(pattern), StopLoss(pattern, _calculate_atr(d, AtrPeriod)),
                  TradeDirection(pattern), d, 3))

\* SignalGenerator._generate_fvg_signal on a non-empty frame: <<>> for None,
\* else the one signal.  With entry = stop the code's targets carry an
\* infinite rr_ratio, which the model's targets do not show; the signal
\* decision reads the first target's price only.
_generate_fvg_signal(pattern, symbol, timeframe, d) ==
    SignalFrom(pattern, symbol, timeframe, TradeDirection(pattern),
               EntryPrice(pattern), StopLoss(pattern, _calculate_atr(d, AtrPeriod)),
               TakeProfitsOf(pattern, d).targets)

\* SignalGenerator.generate_signals_from_patterns on a non-empty frame: the
\* signals of the fair value gap patterns, in pattern order.
RECURSIVE generate_signals_from_patterns(_, _, _, _)
generate_signals_from_patterns(pats, symbol, timeframe, d) ==
    IF pats = <<>> THEN <<>>
    ELSE (IF Head(pats).pattern_type = "fair_value_gap"
          THEN _generate_fvg_signal(Head(pats), symbol, timeframe, d)
          ELSE <<>>)
         \o generate_signals_from_patterns(Tail(pats), symbol, timeframe, d)

\* signal["generated_at"] = value
WithGeneratedAt(signal, value) ==
    [f \in DOMAIN signal \cup {"generated_at"} |->
        IF f = "generated_at" THEN value ELSE signal[f]]

\* scripts/backtest.py, the loop over enumerate(signals): signal i takes the
\* end_timestamp of patterns[i], or the last candle's timestamp when the
\* pattern list is shorter.
AddGeneratedAt(sigs, pats, d) ==
    SubSeq([i \in 1..Len(sigs) |->
               WithGeneratedAt(sigs[i], IF i <= Len(pats) THEN pats[i].end_timestamp
                                        ELSE Last(d).timestamp)],
           1, Len(sigs))

\* The call does not return when the take-profit calculation of one of its
\* fair value gap patterns does not.
GenerateLoops(pats, d) ==
    \E k \in 1..Len(pats) :
        pats[k].pattern_type = "fair_value_gap" /\ ~ TakeProfitsOf(pats[k], d).ends

\* df.iloc[-1] on an empty frame raises IndexError: the call raises when a
\* fair value gap pattern meets an empty frame.
GenerateRaises(pats, d) ==
    d = <<>> /\ \E k \in 1..Len(pats) : pats[k].pattern_type = "fair_value_gap"

\* SignalGenerator.check_signal_validity: the (is_valid, reason) pair.
\* valid_until holds <<>> for None and <<time>> otherwise; the percentage
\* |current_price - entry_price| / entry_price * 100 > 5 is compared by
\* cross-multiplication, entry_price being positive.
Mut_check_signal_validity(signal, current_price, current_time) ==
    IF signal.valid_until # <<>> /\ current_time >= signal.valid_until[1]
    THEN <<FALSE, "expired">>
    ELSE IF Abs(current_price - signal.entry_price) * 100 > 5 * signal.entry_price
    THEN <<FALSE, "price_moved_away">>
    ELSE IF signal.direction = "long" /\ current_price <= signal.stop_loss
    THEN <<FALSE, "stop_loss_hit">>
    ELSE IF signal.direction # "long" /\ current_price >= signal.stop_loss
    THEN <<FALSE, "stop_loss_hit">>
    ELSE <<TRUE, "valid">>

check_signal_validity(signal, current_price, current_time) ==
    IF signal.valid_until # <<>> /\ current_time > signal.valid_until[1]
    THEN <<FALSE, "expired">>
    ELSE IF Abs(current_price - signal.entry_price) * 100 > 5 * signal.entry_price
    THEN <<FALSE, "price_moved_away">>
    ELSE IF signal.direction = "long" /\ current_price <= signal.stop_loss
    THEN <<FALSE, "stop_loss_hit">>
    ELSE IF signal.direction # "long" /\ current_price >= signal.stop_loss
    THEN <<FALSE, "stop_loss_hit">>
    ELSE <<TRUE, "valid">>

------------------------------------------------------------------------------
(* Data collector: aggregate_timeframe, and utils.timeframe_to_minutes      *)
(*                                                                         *)
(* A timeframe string is the record of its number and its unit suffix: 5m  *)
(* is [value |-> 5, unit |-> "m"].  Timestamps count minutes.              *)

Tf(value, unit) == [value |-> value, unit |-> unit]

\* The keys of timeframe_map
TimeframeMap ==
    { Tf(5, "m"), Tf(15, "m"), Tf(30, "m"), Tf(1, "h"), Tf(2, "h"), Tf(4, "h"),
      Tf(6, "h"), Tf(12, "h"), Tf(1, "d"), Tf(1, "w") }

\* utils.timeframe_to_minutes: <<minutes>>, or <<>> when it raises ValueError
\* for an unknown unit.
timeframe_to_minutes(timeframe) ==
    IF timeframe.unit = "m" THEN <<timeframe.value>>
    ELSE IF timeframe.unit = "h" THEN <<timeframe.value * 60>>
    ELSE IF timeframe.unit = "d" THEN <<timeframe.value * 60 * 24>>
    ELSE IF timeframe.unit = "w" THEN <<timeframe.value * 60 * 24 * 7>>
    ELSE <<>>

\* The width in minutes of the pandas offset of a minute, hour or day
\* timeframe of the map (5T ... 1D); the bins of these offsets start at
\* multiples of the width.
OffsetMinutes(timeframe) ==
    IF timeframe.unit = "m" THEN timeframe.value
    ELSE IF timeframe.unit = "h" THEN timeframe.value * 60
    ELSE timeframe.value * 60 * 24

\* The start of the bin a timestamp falls in.
BinOf(timestamp, width) == (timestamp \div width) * width

RECURSIVE MaxOfHighs(_)
MaxOfHighs(rows) ==
    IF Len(rows) = 1 THEN rows[1].high ELSE Max2(Head(rows).high, MaxOfHighs(Tail(rows)))

RECURSIVE MinOfLows(_)
MinOfLows(rows) ==
    IF Len(rows) = 1 THEN rows[1].low ELSE Min2(Head(rows).low, MinOfLows(Tail(rows)))

\* agg over the rows of one bin: first, max, min, last, sum
Mut_AggregateBin(bin, rows) ==
    [ timestamp |-> bin,
      open      |-> rows[1].open,
      high      |-> MaxOfHighs(rows),
      low       |-> MinOfLows(rows),
      close     |-> rows[1].close,
      volume    |-> SumVolume(rows) ]

AggregateBin(bin, rows) ==
    [ timestamp |-> bin,
      open      |-> rows[1].open,
      high      |-> MaxOfHighs(rows),
      low       |-> MinOfLows(rows),
      close     |-> rows[Len(rows)].close,
      volume    |-> SumVolume(rows) ]

\* The bars of the bins, in order.
BarsOf(sorted, bins, width) ==
    [k \in 1..Len(bins) |->
        AggregateBin(bins[k], SelectSeq(sorted, LAMBDA c : BinOf(c.timestamp, width) = bins[k]))]

\* df.resample(offset).agg(...).dropna() on rows in timestamp order: one bar
\* per bin that holds a row; the bins without rows, all-NaN after agg, are
\* dropped.
Resample(sorted, width) ==
    BarsOf(sorted,
           RemoveDuplicates([k \in 1..Len(sorted) |-> BinOf(sorted[k].timestamp, width)], {}),
           width)

\* resample groups the rows in timestamp order, rows of equal timestamp in
\* frame order.
SortByTimestamp(rows) ==
    SortAscending([k \in 1..Len(rows) |-> <<<<rows[k].timestamp, 0>>, rows[k]>>])

\* collector.aggregate_timeframe: raised is TRUE when it raises ValueError.
aggregate_timeframe(df_1m, target_timeframe) ==
    IF target_timeframe \notin TimeframeMap
    THEN [raised |-> TRUE, bars |-> <<>>]
    ELSE [raised |-> FALSE,
          bars   |-> Resample(SortByTimestamp(df_1m), OffsetMinutes(target_timeframe))]

\* The other components' variables while the detector runs.
TPIdle ==
    /\ tp_in = None
    /\ tp_out = <<>>
    /\ tpc = "args"

BTIdle ==
    /\ signals = <<>>
    /\ ohlcv_data = <<>>
    /\ pc = "idle"
    /\ order = <<>>
    /\ cursor = 0
    /\ capital = 0
    /\ closed_trades = <<>>
    /\ equity_curve = <<>>
    /\ journal = <<>>
    /\ results = None
    /\ runs = 0
    /\ returned = <<>>

DetectIdle ==
    /\ df = <<>>
    /\ lookback_candles = MaxCandles
    /\ patterns = <<>>
    /\ candidates = <<>>
    /\ dpc = "feed"

GenIdle ==
    /\ gen_df = <<>>
    /\ gen_patterns = <<>>
    /\ gen_signals = <<>>
    /\ gpc = "args"

ValIdle ==
    /\ val_signal = None
    /\ val_price = 0
    /\ val_time = 0
    /\ val_result = <<>>
    /\ vpc = "args"

FetchIdle ==
    /\ timeframes = <<>>
    /\ ohlcv_1m = <<>>
    /\ fpc = "config"
    /\ fetch_i = 0
    /\ fetch_j = 0
    /\ fetch_trace = <<>>

EqIdle ==
    /\ eq_points = <<>>
    /\ eq_tolerance = DefaultTolerance
    /\ eq_levels = <<>>
    /\ epc = "args"

RestIdle == GenIdle /\ ValIdle /\ FetchIdle /\ EqIdle

\* FairValueGap.__init__: the detector is configured with a look-back; no
\* candle has arrived.
InitDetect ==
    /\ df = <<>>
    /\ lookback_candles \in {ShortLookback, MaxCandles}
    /\ patterns = <<>>
    /\ candidates = <<>>
    /\ dpc = "feed"
    /\ TPIdle
    /\ BTIdle
    /\ RestIdle

\* The collaborator supplies the next candle, with the next timestamp.
AppendCandle ==
    /\ dpc = "feed"
    /\ Len(df) < MaxCandles
    /\ \E c \in CandleMenu :
          df' = Append(df, [ timestamp |-> Len(df) + 1, open |-> c.open,
                             high |-> c.high, low |-> c.low, close |-> c.close ])
    /\ UNCHANGED <<lookback_candles, patterns, candidates, dpc>>
    /\ UNCHANGED <<tpVars, btVars, restVars>>

\* A call of FairValueGap.detect on the candles received so far.
Detect ==
    /\ dpc = "feed"
    /\ candidates' = DetectCandidates(df, lookback_candles)
    /\ patterns' = detect(df, lookback_candles)
    /\ dpc' = "detected"
    /\ UNCHANGED <<df, lookback_candles>>
    /\ UNCHANGED <<tpVars, btVars, restVars>>

NextDetect == AppendCandle \/ Detect

SpecDetect == InitDetect /\ [][NextDetect]_vars

-----------------------------------------------------------------------------
(* Claims about the detector (checked under SpecDetect)                    *)

\* The 1-based positions of the first candles of the windows detect scans.
ScannedWindows ==
    IF Len(df) < 3 THEN {}
    ELSE { i \in 1..(Len(df) - 2) : i > Len(df) - lookback_candles }

\* The conditions of section 4.1 on the window starting at candle i.
GapAndImpulse(i, bullish) ==
    LET c0   == df[i]
        c1   == df[i + 1]
        c2   == df[i + 2]
        gap  == IF bullish THEN c2.low - c0.high ELSE c0.low - c2.high
    IN  /\ gap > 0
        /\ gap * 100 * MinGapDen >= MinGapNum * c1.close
        /\ IF bullish THEN c1.close > c1.open ELSE c1.close < c1.open
        /\ 2 * Abs(c1.close - c1.open) > c1.high - c1.low

QualifyingWindow(i) == GapAndImpulse(i, TRUE) \/ GapAndImpulse(i, FALSE)

\* The positions of the patterns of list ps that span the window starting at i.
PatternsOfWindow(ps, i) ==
    { k \in 1..Len(ps) : /\ ps[k].start_timestamp = df[i].timestamp
                         /\ ps[k].end_timestamp = df[i + 2].timestamp }

WellFormedPattern(p) ==
    /\ p.price_high > p.price_low
    /\ p.gap_pct_num * MinGapDen >= MinGapNum * p.gap_pct_den

\* C1: any two distinct patterns detect returns have intervals
\* [start_timestamp, end_timestamp] of which one ends strictly before the other
\* starts; they do not even share a boundary candle.
C1_ReturnedPatternsDisjoint ==
    dpc = "detected" =>
        \A i, j \in 1..Len(patterns) :
            i < j => \/ patterns[i].end_timestamp < patterns[j].start_timestamp
                     \/ patterns[j].end_timestamp < patterns[i].start_timestamp

\* C1 witness: detect returned two patterns after the filter dropped a candidate.
C1_Witness ==
    /\ dpc = "detected"
    /\ Len(patterns) >= 2
    /\ Len(candidates) > Len(patterns)

\* C3 as stated: every qualifying window inside the scanned trailing window has
\* exactly one pattern in the list detect returns, and that pattern is well
\* formed.
C3_EveryQualifyingWindowReturned ==
    dpc = "detected" =>
        \A i \in ScannedWindows :
            QualifyingWindow(i) =>
                /\ Cardinality(PatternsOfWindow(patterns, i)) = 1
                /\ \A k \in PatternsOfWindow(patterns, i) : WellFormedPattern(patterns[k])

\* C3 as amended: every qualifying window inside the scanned trailing window
\* has exactly one pattern in the candidate list detect builds before the
\* overlap filter, well formed; the returned list holds that pattern, or none
\* for the window when the window overlaps a returned pattern of another
\* window.
C3_QualifyingWindowYieldsOneCandidate ==
    dpc = "detected" =>
        \A i \in ScannedWindows :
            QualifyingWindow(i) =>
                /\ Cardinality(PatternsOfWindow(candidates, i)) = 1
                /\ \A k \in PatternsOfWindow(candidates, i) :
                      /\ WellFormedPattern(candidates[k])
                      /\ \/ PatternsOfWindow(patterns, i) # {}
                            /\ \A m \in PatternsOfWindow(patterns, i) :
                                  patterns[m] = candidates[k]
                            /\ Cardinality(PatternsOfWindow(patterns, i)) = 1
                         \/ /\ PatternsOfWindow(patterns, i) = {}
                            /\ \E m \in 1..Len(patterns) :
                                  /\ patterns[m].start_timestamp <= df[i + 2].timestamp
                                  /\ df[i].timestamp <= patterns[m].end_timestamp

\* C3 witness: a scanned qualifying bearish window and a scanned qualifying
\* bullish window, one returned and one dropped by the filter.
C3_Witness ==
    /\ dpc = "detected"
    /\ \E i, j \in ScannedWindows :
          /\ GapAndImpulse(i, TRUE)
          /\ GapAndImpulse(j, FALSE)
          /\ \/ PatternsOfWindow(patterns, i) = {} /\ PatternsOfWindow(patterns, j) # {}
             \/ PatternsOfWindow(patterns, j) = {} /\ PatternsOfWindow(patterns, i) # {}

-----------------------------------------------------------------------------
(* Specification of calculate_dynamic_take_profits                         *)

\* The arguments of a call before any chart structure is known: entry, stop
\* (entry_price # stop_loss), direction and max_levels.
InitTP ==
    /\ \E entry \in EntryMenu, risk \in RiskMenu, direction \in {"long", "short"},
          side \in {-1, 1}, max_levels \in 1..MaxLevels :
          tp_in = [ entry_price |-> entry,
                    stop_loss   |-> entry + side * risk,
                    direction   |-> direction,
                    swing_highs |-> <<>>,
                    swing_lows  |-> <<>>,
                    vol_mids    |-> <<>>,
                    max_levels  |-> max_levels ]
    /\ tp_out = <<>>
    /\ tpc = "args"
    /\ DetectIdle
    /\ BTIdle
    /\ RestIdle

\* find_swing_points found one more swing high in the candles.
AddSwingHigh ==
    /\ tpc = "args"
    /\ Len(tp_in.swing_highs) + Len(tp_in.swing_lows) < MaxSwings
    /\ \E p \in SwingHighMenu :
          tp_in' = [tp_in EXCEPT !.swing_highs = Append(@, p)]
    /\ UNCHANGED <<tp_out, tpc, detectVars, btVars, restVars>>

\* find_swing_points found one more swing low in the candles.
AddSwingLow ==
    /\ tpc = "args"
    /\ Len(tp_in.swing_highs) + Len(tp_in.swing_lows) < MaxSwings
    /\ \E p \in SwingLowMenu :
          tp_in' = [tp_in EXCEPT !.swing_lows = Append(@, p)]
    /\ UNCHANGED <<tp_out, tpc, detectVars, btVars, restVars>>

\* find_volume_clusters found one more cluster in the candles.
AddVolumeCluster ==
    /\ tpc = "args"
    /\ Len(tp_in.vol_mids) < MaxVolClusters
    /\ \E p \in VolMidMenu :
          tp_in' = [tp_in EXCEPT !.vol_mids = Append(@, p)]
    /\ UNCHANGED <<tp_out, tpc, detectVars, btVars, restVars>>

\* A call of calculate_dynamic_take_profits with the arguments built so far.
CalculateTakeProfits ==
    /\ tpc = "args"
    /\ LET r == calculate_dynamic_take_profits(tp_in)
       IN  /\ tp_out' = r.targets
           /\ tpc' = IF r.ends THEN "returned" ELSE "looping"
    /\ UNCHANGED <<tp_in, detectVars, btVars, restVars>>

NextTP == AddSwingHigh \/ AddSwingLow \/ AddVolumeCluster \/ CalculateTakeProfits

SpecTP == InitTP /\ [][NextTP]_vars

\* C2: every target calculate_dynamic_take_profits returns, structural or
\* fallback, has rr_ratio >= 1.5 and a price strictly above entry_price for a
\* long, strictly below it for a short; the list is ascending in rr_ratio.
C2_TargetsProfitableAndSorted ==
    tpc = "returned" =>
        LET risk == Abs(tp_in.entry_price - tp_in.stop_loss)
        IN  /\ \A k \in 1..Len(tp_out) :
                  /\ 2 * tp_out[k].rr_ratio >= 3 * risk
                  /\ IF tp_in.direction = "long"
                     THEN tp_out[k].price > tp_in.entry_price
                     ELSE tp_out[k].price < tp_in.entry_price
            /\ \A k \in 1..(Len(tp_out) - 1) :
                  tp_out[k].rr_ratio <= tp_out[k + 1].rr_ratio

\* C2 witness: a short call returned three structural targets of three
\* different kinds.
C2_Witness ==
    /\ tpc = "returned"
    /\ tp_in.direction = "short"
    /\ Len(tp_out) = 3
    /\ Cardinality({tp_out[k].type : k \in 1..3}) = 3
    /\ \A k \in 1..3 : tp_out[k].type # "fallback"

-----------------------------------------------------------------------------
(* Specification of the backtest engine                                    *)

\* BacktestEngine.__init__, and the candle data the caller has loaded.
InitBT ==
    /\ signals = <<>>
    /\ \E series \in SeriesMenu : ohlcv_data = (<<"BTC", "1h">> :> series)
    /\ pc = "idle"
    /\ order = <<>>
    /\ cursor = 0
    /\ capital = initial_capital * MoneyScale
    /\ closed_trades = <<>>
    /\ equity_curve = <<>>
    /\ journal = <<>>
    /\ results = None
    /\ runs = 0
    /\ returned = <<>>
    /\ DetectIdle
    /\ TPIdle
    /\ RestIdle

\* The caller collects one more signal for the next call (all_signals.extend),
\* before the first call or after an earlier one has ended.
SubmitSignal ==
    /\ pc \in {"idle", "done", "raised"}
    /\ Len(signals) < MaxSignals
    /\ \E sig \in SignalMenu : signals' = Append(signals, sig)
    /\ pc' = "idle"
    /\ UNCHANGED <<ohlcv_data, order, cursor, capital, closed_trades,
                   equity_curve, journal, results, runs, returned>>
    /\ UNCHANGED <<detectVars, tpVars, restVars>>

\* run_backtest up to its for loop: reset() and the sort of the signals.  The
\* engine may have been used before.  The result of the call before this one,
\* when that call returned, holds the very lists reset() detaches.
RunBacktest ==
    /\ pc \in {"idle", "done", "raised"}
    /\ runs < MaxRuns
    /\ LET r == reset([capital |-> capital, closed_trades |-> closed_trades,
                       equity_curve |-> equity_curve])
       IN  /\ capital' = r.capital
           /\ closed_trades' = r.closed_trades
           /\ equity_curve' = r.equity_curve
           /\ returned' = IF returned # <<>> /\ Last(returned).call = runs
                          THEN [returned EXCEPT ![Len(returned)].result =
                                    WithLists(@, r.detached)]
                          ELSE returned
    /\ order' = SortSignals(signals)
    /\ cursor' = 0
    /\ journal' = <<>>
    /\ pc' = "running"
    /\ runs' = runs + 1
    /\ UNCHANGED <<signals, ohlcv_data, results>>
    /\ UNCHANGED <<detectVars, tpVars, restVars>>

\* One iteration of the for loop: _process_signal on the next signal.  An
\* exception leaves the loop and run_backtest.
ProcessSignal ==
    /\ pc = "running"
    /\ cursor < Len(order)
    /\ LET r == _process_signal(signals[order[cursor + 1]], ohlcv_data, capital)
       IN  /\ capital' = r.capital
           /\ closed_trades' = closed_trades \o r.trades
           /\ equity_curve' = equity_curve \o r.points
           /\ journal' = Append(journal, [signal |-> order[cursor + 1], outcome |-> r.outcome])
           /\ pc' = IF r.outcome = "raised" THEN "raised" ELSE "running"
    /\ cursor' = cursor + 1
    /\ UNCHANGED <<signals, ohlcv_data, order, results, runs, returned>>
    /\ UNCHANGED <<detectVars, tpVars, restVars>>

\* The end of run_backtest: _calculate_results and the return.
CalculateResults ==
    /\ pc = "running"
    /\ cursor = Len(order)
    /\ results' = _calculate_results(capital, closed_trades, equity_curve)
    /\ returned' = Append(returned, [call |-> runs, inputs |-> signals, result |-> results'])
    /\ pc' = "done"
    /\ UNCHANGED <<signals, ohlcv_data, order, cursor, capital, closed_trades,
                   equity_curve, journal, runs>>
    /\ UNCHANGED <<detectVars, tpVars, restVars>>

NextBT == SubmitSignal \/ RunBacktest \/ ProcessSignal \/ CalculateResults

SpecBT == InitBT /\ [][NextBT]_vars

-----------------------------------------------------------------------------
(* Claims about the backtest engine                                        *)

\* What a signal costs to enter: size x entry price moved against the trader
\* by the slippage, plus the commission on that amount.
EntryCostOf(sig) ==
    LET slipped  == IF sig.direction = "long"
                    THEN sig.entry_price * (SlippageDiv + 1)
                    ELSE sig.entry_price * (SlippageDiv - 1)
        notional == sig.position_size * slipped * MoneyPerPrice
    IN  notional + notional \div CommissionDiv

\* The candles a signal can trade on: those of its series at or after its
\* generation time (none when the series is missing).
DfAfter(sig) ==
    IF <<sig.symbol, sig.timeframe>> \in DOMAIN ohlcv_data
    THEN SelectSeq(ohlcv_data[<<sig.symbol, sig.timeframe>>],
                   LAMBDA c : c.timestamp >= sig.generated_at)
    ELSE <<>>

StopFires(sig, c) ==
    IF sig.direction = "long" THEN c.low <= sig.stop_loss ELSE c.high >= sig.stop_loss

TargetFires(sig, c) ==
    /\ sig.take_profit_1 # <<>>
    /\ IF sig.direction = "long" THEN c.high >= sig.take_profit_1[1]
       ELSE c.low <= sig.take_profit_1[1]

\* The scenario of the example: one long signal, entry 100, stop 95, target
\* 110, generated at the first candle, and a next candle whose high reaches 110
\* while its low stays above 95.
ScenarioSignal(size) ==
    [ symbol |-> "BTC", timeframe |-> "1h", direction |-> "long", entry_price |-> 100,
      stop_loss |-> 95, take_profit_1 |-> <<110>>, position_size |-> size,
      generated_at |-> 1 ]

ScenarioRun(size) ==
    /\ pc = "done"
    /\ signals = <<ScenarioSignal(size)>>
    /\ LET next == DfAfter(signals[1])[2]
       IN  next.high >= 110 /\ next.low > 95

OneTargetTradeClosed ==
    /\ Len(closed_trades) = 1
    /\ closed_trades[1].exit_reason = "take_profit"
    /\ capital > initial_capital * MoneyScale
    /\ Len(equity_curve) = 1

\* C4 as stated: with initial_capital 10000, commission 0.1 %, slippage 0.05 %
\* and position_size 100 the scenario closes exactly one trade with reason
\* take_profit, leaves capital above 10000 and appends one equity point.
C4_ScenarioClosesOneTrade ==
    ScenarioRun(100) => OneTargetTradeClosed

\* C4 amended: in that scenario the entry costs 100 x 100.05 plus 0.1 %
\* commission = 10015.005 > 10000, so the signal is skipped: no trade, capital
\* still 10000, no equity point.  With a position size whose entry cost fits
\* the capital (60) the scenario closes exactly one trade with reason
\* take_profit, leaves capital above 10000 and appends one equity point.
C4_ScenarioNeedsAffordableSize ==
    /\ ScenarioRun(100) =>
           /\ EntryCostOf(signals[1]) > initial_capital * MoneyScale
           /\ closed_trades = <<>>
           /\ capital = initial_capital * MoneyScale
           /\ equity_curve = <<>>
    /\ ScenarioRun(60) => OneTargetTradeClosed

C4_Witness ==
    /\ ScenarioRun(60)
    /\ Len(closed_trades) = 1
    /\ closed_trades[1].exit_reason = "take_profit"

\* C5: run_backtest always completes for any signal list, take_profit_1 being
\* optional: no run ends in an exception.
C5_RunAlwaysCompletes ==
    pc # "raised"

TradeOf(k) ==
    closed_trades[Cardinality({j \in 1..k : journal[j].outcome = "closed"})]

\* The first candle after the entry candle on which the stop or the target
\* fires; 0 when none does.
FirstFiring(sig) ==
    LET firing == {i \in 2..Len(DfAfter(sig)) :
                      StopFires(sig, DfAfter(sig)[i]) \/ TargetFires(sig, DfAfter(sig)[i])}
    IN  IF firing = {} THEN 0 ELSE CHOOSE i \in firing : \A j \in firing : i <= j

\* C7: a position is closed on the first candle after its entry candle on
\* which the stop or the target fires, at that candle's time; when both fire on
\* that candle the stop wins; the exit price is the stop or target price
\* (with exit slippage); a position no later candle fires on stays open.
C7_ClosedOnFirstFiringCandle ==
    \A k \in 1..Len(journal) :
        LET sig   == signals[journal[k].signal]
            first == FirstFiring(sig)
        IN  /\ journal[k].outcome = "open" => first = 0
            /\ journal[k].outcome = "closed" =>
                   LET candle == DfAfter(sig)[first]
                       trade  == TradeOf(k)
                       byStop == StopFires(sig, candle)
                       level  == IF byStop THEN sig.stop_loss ELSE sig.take_profit_1[1]
                   IN  /\ first # 0
                       /\ trade.entry_time = DfAfter(sig)[1].timestamp
                       /\ trade.exit_time = candle.timestamp
                       /\ trade.exit_reason = IF byStop THEN "stop_loss" ELSE "take_profit"
                       /\ trade.exit_price =
                              IF sig.direction = "long" THEN level * (SlippageDiv - 1)
                              ELSE level * (SlippageDiv + 1)

\* Two closed trades: one closed by its stop on a candle where its target
\* fires as well, after a candle on which nothing fired; one whose entry
\* candle touches the stop but which closes later, by its target.
C7_Witness ==
    /\ \E k \in 1..Len(journal) :
           /\ journal[k].outcome = "closed"
           /\ LET sig == signals[journal[k].signal]
                  candle == DfAfter(sig)[FirstFiring(sig)]
              IN  /\ FirstFiring(sig) > 2
                  /\ StopFires(sig, candle)
                  /\ TargetFires(sig, candle)
                  /\ TradeOf(k).exit_reason = "stop_loss"
    /\ \E k \in 1..Len(journal) :
           /\ journal[k].outcome = "closed"
           /\ LET sig == signals[journal[k].signal]
              IN  /\ StopFires(sig, DfAfter(sig)[1])
                  /\ TradeOf(k).exit_reason = "take_profit"
                  /\ TradeOf(k).exit_time > TradeOf(k).entry_time

\* C8: run_backtest processes the signals in ascending order of generation
\* time, equal times in input order, whatever the input order; and each
\* signal's capital check is made against the capital at that moment: a signal
\* that has an entry candle is skipped for capital exactly when its entry cost
\* exceeds the capital left by the signals processed before it.
C8_ProcessedInTimeOrder ==
    [][ /\ (pc # "running" /\ pc' = "running") =>
               /\ Len(order') = Len(signals)
               /\ {order'[i] : i \in 1..Len(order')} = 1..Len(signals)
               /\ \A i \in 1..Len(order') : \A j \in (i + 1)..Len(order') :
                      \/ signals[order'[i]].generated_at < signals[order'[j]].generated_at
                      \/ /\ signals[order'[i]].generated_at = signals[order'[j]].generated_at
                         /\ order'[i] < order'[j]
        /\ (pc = "running" /\ cursor' = cursor + 1) =>
               LET sig == signals[order[cursor + 1]]
               IN  /\ Last(journal').signal = order[cursor + 1]
                   /\ Len(journal') = cursor + 1
                   /\ Last(journal').outcome = "insufficient" <=>
                          (Len(DfAfter(sig)) >= 2 /\ EntryCostOf(sig) > capital)
      ]_vars

\* A signal the initial capital could pay for, given later in the input than
\* a signal generated after it, is skipped because an earlier-generated signal
\* holds the capital.
C8_Witness ==
    /\ pc = "done"
    /\ \E k \in 1..Len(journal) :
           /\ journal[k].outcome = "insufficient"
           /\ EntryCostOf(signals[journal[k].signal]) <= initial_capital * MoneyScale
    /\ \E i \in 1..Len(order) : order[i] # i
    /\ \E i \in 1..Len(signals) : \E j \in 1..Len(signals) :
           i # j /\ signals[i].generated_at = signals[j].generated_at

\* C9: a signal skipped because its (symbol, timeframe) has no series or
\* because its entry cost exceeds the capital leaves capital, closed_trades and
\* equity_curve as they were, and the run goes on with the next signal.
C9_SkipLeavesStateUnchanged ==
    [][ (pc = "running" /\ cursor' = cursor + 1) =>
            LET sig == signals[order[cursor + 1]]
            IN  (\/ <<sig.symbol, sig.timeframe>> \notin DOMAIN ohlcv_data
                 \/ EntryCostOf(sig) > capital) =>
                    /\ capital' = capital
                    /\ closed_trades' = closed_trades
                    /\ equity_curve' = equity_curve
                    /\ pc' = "running"
      ]_vars

\* A signal without series and a signal too expensive are skipped, and a
\* signal after them closes a trade.
C9_Witness ==
    /\ pc = "done"
    /\ \E i \in 1..Len(journal) : \E j \in 1..Len(journal) : \E k \in 1..Len(journal) :
           /\ i < k /\ j < k
           /\ journal[i].outcome = "no_data"
           /\ journal[j].outcome = "insufficient"
           /\ journal[k].outcome = "closed"

\* C10: the equity point _close_position appends records the capital
\* immediately after the close.
C10_EquityPointIsCapitalAfterClose ==
    (journal # <<>> /\ Last(journal).outcome = "closed") =>
        Last(equity_curve).equity = capital

\* C11: a closed long trade records entry_price E(1 + s/100), exit_price
\* X(1 - s/100) and pnl = (exit_price - entry_price) * q - (c/100) * q *
\* exit_price; a closed short records entry_price E(1 - s/100), exit_price
\* X(1 + s/100) and pnl = (entry_price - exit_price) * q - (c/100) * q *
\* exit_price, E being the signal's entry, X the stop or target that fired and
\* q the size: the exit slips against the trader, opposite to the entry.
C11_SlippedPricesAndPnl ==
    \A k \in 1..Len(journal) :
        journal[k].outcome = "closed" =>
            LET sig   == signals[journal[k].signal]
                trade == TradeOf(k)
                E     == sig.entry_price
                X     == IF trade.exit_reason = "stop_loss" THEN sig.stop_loss
                         ELSE sig.take_profit_1[1]
                q     == sig.position_size
                fee   == (q * trade.exit_price * MoneyPerPrice) \div CommissionDiv
            IN  IF sig.direction = "long"
                THEN /\ trade.entry_price = E * SlippageDiv + E
                     /\ trade.exit_price = X * SlippageDiv - X
                     /\ trade.pnl = (trade.exit_price - trade.entry_price) * q * MoneyPerPrice - fee
                     /\ trade.exit_price < X * SlippageDiv
                ELSE /\ trade.entry_price = E * SlippageDiv - E
                     /\ trade.exit_price = X * SlippageDiv + X
                     /\ trade.pnl = (trade.entry_price - trade.exit_price) * q * MoneyPerPrice - fee
                     /\ trade.exit_price > X * SlippageDiv

\* A run that closed a long and a short trade, one at a profit and one at a
\* loss.
C11_Witness ==
    /\ \E k \in 1..Len(journal) :
           journal[k].outcome = "closed" /\ signals[journal[k].signal].direction = "long"
    /\ \E k \in 1..Len(journal) :
           journal[k].outcome = "closed" /\ signals[journal[k].signal].direction = "short"
    /\ \E n \in 1..Len(closed_trades) : closed_trades[n].pnl > 0
    /\ \E n \in 1..Len(closed_trades) : closed_trades[n].pnl < 0

\* The signals processed that entered a position.
Entered(k) == journal[k].outcome \in {"open", "closed", "raised"}

\* The ledger after the first k signals processed: the initial capital, less
\* the entry cost of each position entered, plus the exit notional of each
\* position closed.
RECURSIVE LedgerBalance(_)
LedgerBalance(k) ==
    IF k = 0 THEN initial_capital * MoneyScale
    ELSE LedgerBalance(k - 1)
         - (IF Entered(k) THEN EntryCostOf(signals[journal[k].signal]) ELSE 0)
         + (IF journal[k].outcome = "closed"
            THEN TradeOf(k).position_size * TradeOf(k).exit_price * MoneyPerPrice
            ELSE 0)

\* C12: a position on which neither the stop nor the target fires on any
\* candle after its entry candle is never closed: it adds no closed trade and
\* no equity point (there are exactly as many of each as positions that
\* closed), and its entry cost stays deducted: at every moment of the run the
\* capital is the initial capital less the entry costs of all positions
\* entered plus the exit notionals of those that closed.
C12_UnfiredPositionStaysOpen ==
    LET closed == {k \in 1..Len(journal) : journal[k].outcome = "closed"}
    IN  /\ \A k \in 1..Len(journal) :
               (Entered(k) /\ FirstFiring(signals[journal[k].signal]) = 0) => k \notin closed
        /\ Len(closed_trades) = Cardinality(closed)
        /\ Len(equity_curve) = Cardinality(closed)
        /\ capital = LedgerBalance(Len(journal))

\* A finished run with a position left open and, after it, a signal the
\* initial capital could pay for that is refused for capital.
C12_Witness ==
    /\ pc = "done"
    /\ \E k \in 1..Len(journal) : \E m \in (k + 1)..Len(journal) :
           /\ journal[k].outcome = "open"
           /\ FirstFiring(signals[journal[k].signal]) = 0
           /\ journal[m].outcome = "insufficient"
           /\ EntryCostOf(signals[journal[m].signal]) <= initial_capital * MoneyScale
    /\ closed_trades = <<>>
    /\ equity_curve = <<>>
    /\ capital < initial_capital * MoneyScale

\* What a call of run_backtest on a new engine computes for the signals sigs:
\* the signals processed in order from the initial capital and empty lists.
RECURSIVE ProcessedFrom(_, _, _)
ProcessedFrom(sigs, i, st) ==
    IF i > Len(sigs) THEN st
    ELSE LET r == _process_signal(sigs[SortSignals(sigs)[i]], ohlcv_data, st.capital)
         IN  ProcessedFrom(sigs, i + 1,
                 [ capital |-> r.capital, trades |-> st.trades \o r.trades,
                   curve |-> st.curve \o r.points ])

FreshResult(sigs) ==
    LET st == ProcessedFrom(sigs, 1, [ capital |-> initial_capital * MoneyScale,
                                       trades |-> <<>>, curve |-> <<>> ])
    IN  _calculate_results(st.capital, st.trades, st.curve)

\* C13: every call of run_backtest starts from capital = initial_capital and
\* empty trade ledger and equity curve; its result is what a new engine
\* returns for the same inputs, whatever this engine processed before, so two
\* calls with the same inputs return equal results; and the result an earlier
\* call returned, its trade list included, is not changed by a later call.
C13_EveryRunStartsFresh ==
    /\ (pc = "running" /\ cursor = 0) =>
           /\ capital = initial_capital * MoneyScale
           /\ closed_trades = <<>>
           /\ equity_curve = <<>>
    /\ pc = "done" => results = FreshResult(signals)
    /\ \A k \in 1..Len(returned) : returned[k].result = FreshResult(returned[k].inputs)
    /\ \A j \in 1..Len(returned) : \A k \in 1..Len(returned) :
           returned[j].inputs = returned[k].inputs => returned[j].result = returned[k].result

\* A second call with the first call's inputs has returned, each call having
\* closed a trade and left another position open.
C13_Witness ==
    /\ runs = 2
    /\ pc = "done"
    /\ Len(returned) = 2
    /\ returned[1].inputs = returned[2].inputs
    /\ returned[1].result.total_trades >= 1
    /\ returned[1].result.trades # <<>>
    /\ \E k \in 1..Len(journal) : journal[k].outcome = "open"

------------------------------------------------------------------------------
(* Specification SpecGen: the signal generator on one candle frame          *)

MaxPatterns == 2

\* FairValueGap.__init__: lookback_candles defaults to 100
DefaultLookback == 100

\* A candle centred on 12000, half its range on each side.
PlainCandle(i, half) ==
    [ timestamp |-> i, open |-> 12000, high |-> 12000 + half,
      low |-> 12000 - half, close |-> 12000, volume |-> 10 ]

PlainSeries(n, half) == [i \in 1..n |-> PlainCandle(i, half)]

\* Three candles with a bullish gap between 12000 and 12040.
GapSeries ==
    << [timestamp |-> 1, open |-> 11995, high |-> 12000, low |-> 11990, close |-> 11998, volume |-> 10],
       [timestamp |-> 2, open |-> 11999, high |-> 12042, low |-> 11997, close |-> 12041, volume |-> 30],
       [timestamp |-> 3, open |-> 12044, high |-> 12050, low |-> 12040, close |-> 12046, volume |-> 10] >>

\* Twenty candles, the first six tall and heavily traded.
ClusterSeries ==
    [i \in 1..20 |->
        IF i <= 6
        THEN [ timestamp |-> i, open |-> 12000, high |-> 12190 + 20 * i,
               low |-> 11990, close |-> 12000, volume |-> 50 + i ]
        ELSE PlainCandle(i, 10)]

\* Thirty-three candles with two equal swing highs and a swing low in the
\* middle.
SwingSeries ==
    [i \in 1..33 |->
        IF i = 16
        THEN [ timestamp |-> i, open |-> 12000, high |-> 12200,
               low |-> 11980, close |-> 12000, volume |-> 10 ]
        ELSE IF i = 17
        THEN [ timestamp |-> i, open |-> 12000, high |-> 12200,
               low |-> 11800, close |-> 12000, volume |-> 10 ]
        ELSE PlainCandle(i, 10)]

\* The frames the generator is run on: empty, flat, shorter than the ATR
\* period, shorter than twice the swing look-back, and longer.
GenDfMenu ==
    { <<>>, PlainSeries(2, 0), PlainSeries(3, 30), PlainSeries(3, 45), GapSeries,
      PlainSeries(14, 0), PlainSeries(16, 10), PlainSeries(30, 10),
      ClusterSeries, SwingSeries }

\* The patterns handed to the generator: both directions, a gap of 40 and a
\* gap of no width, and a pattern of another type, each ending at a candle of
\* its own.
PatternMenu ==
    { [pattern_type |-> "fair_value_gap", direction |-> "bullish",
       price_low |-> 12000, price_high |-> 12040, end_timestamp |-> 3],
      [pattern_type |-> "fair_value_gap", direction |-> "bullish",
       price_low |-> 12000, price_high |-> 12000, end_timestamp |-> 4],
      [pattern_type |-> "fair_value_gap", direction |-> "bearish",
       price_low |-> 12000, price_high |-> 12040, end_timestamp |-> 5],
      [pattern_type |-> "fair_value_gap", direction |-> "bearish",
       price_low |-> 12040, price_high |-> 12040, end_timestamp |-> 6],
      [pattern_type |-> "order_block", direction |-> "bullish",
       price_low |-> 12000, price_high |-> 12040, end_timestamp |-> 7] }

InitGen ==
    /\ gen_df \in GenDfMenu
    /\ gen_patterns = <<>>
    /\ gen_signals = <<>>
    /\ gpc = "args"
    /\ DetectIdle
    /\ TPIdle
    /\ BTIdle
    /\ ValIdle
    /\ FetchIdle
    /\ EqIdle

\* The caller collects a pattern.
AddPattern ==
    /\ gpc = "args"
    /\ Len(gen_patterns) < MaxPatterns
    /\ \E p \in PatternMenu : gen_patterns' = Append(gen_patterns, p)
    /\ UNCHANGED <<gen_df, gen_signals, gpc>>
    /\ UNCHANGED <<detectVars, tpVars, btVars, valVars, fetchVars, eqVars>>

\* The scanner's own pattern list: detector.detect(df) with the detector's
\* default look-back.
DetectPatterns ==
    /\ gpc = "args"
    /\ gen_patterns = <<>>
    /\ detect(gen_df, DefaultLookback) # <<>>
    /\ gen_patterns' = detect(gen_df, DefaultLookback)
    /\ UNCHANGED <<gen_df, gen_signals, gpc>>
    /\ UNCHANGED <<detectVars, tpVars, btVars, valVars, fetchVars, eqVars>>

\* signal_generator.generate_signals_from_patterns(patterns, symbol,
\* timeframe, df)
GenerateSignals ==
    /\ gpc = "args"
    /\ IF GenerateRaises(gen_patterns, gen_df)
       THEN gpc' = "raised" /\ gen_signals' = gen_signals
       ELSE IF GenerateLoops(gen_patterns, gen_df)
       THEN gpc' = "looping" /\ gen_signals' = gen_signals
       ELSE /\ gpc' = "generated"
            /\ gen_signals' = generate_signals_from_patterns(gen_patterns, "BTC/USDT", "1h", gen_df)
    /\ UNCHANGED <<gen_df, gen_patterns>>
    /\ UNCHANGED <<detectVars, tpVars, btVars, valVars, fetchVars, eqVars>>

\* scripts/backtest.py: the loop that adds generated_at to the signals the
\* generator returned.
StampSignals ==
    /\ gpc = "generated"
    /\ gen_signals' = AddGeneratedAt(gen_signals, gen_patterns, gen_df)
    /\ gpc' = "stamped"
    /\ UNCHANGED <<gen_df, gen_patterns>>
    /\ UNCHANGED <<detectVars, tpVars, btVars, valVars, fetchVars, eqVars>>

NextGen == AddPattern \/ DetectPatterns \/ GenerateSignals \/ StampSignals

SpecGen == InitGen /\ [][NextGen]_vars

\* The notes a signal of this pattern would carry.
NotesOf(pattern) ==
    [ direction |-> pattern.direction,
      gap_low   |-> pattern.price_low,
      gap_high  |-> pattern.price_high ]

\* The fair value gap patterns of the call whose k-th take-profit target
\* exists and lies below (or not below) min_risk_reward times the risk.
TargetBelowMin(pattern, d, k) ==
    /\ Len(TakeProfitsOf(pattern, d).targets) >= k
    /\ Abs(TakeProfitsOf(pattern, d).targets[k].price - EntryPrice(pattern))
           < min_risk_reward * Abs(EntryPrice(pattern) - StopLoss(pattern, _calculate_atr(d, AtrPeriod)))

TargetAtLeastMin(pattern, d, k) ==
    /\ Len(TakeProfitsOf(pattern, d).targets) >= k
    /\ Abs(TakeProfitsOf(pattern, d).targets[k].price - EntryPrice(pattern))
           >= min_risk_reward * Abs(EntryPrice(pattern) - StopLoss(pattern, _calculate_atr(d, AtrPeriod)))

\* C14: every signal generate_signals_from_patterns returns has a
\* risk_reward_ratio, computed from entry_price, stop_loss and take_profit_1
\* (the first, lowest target), of at least min_risk_reward; a pattern whose
\* first target lies below the minimum has no signal in the returned list,
\* whatever its further targets are.
C14_SignalsMeetMinRiskReward ==
    gpc = "generated" =>
        /\ \A s \in 1..Len(gen_signals) :
               /\ gen_signals[s].risk_reward_ratio
                      = Frac(Abs(gen_signals[s].take_profit_1 - gen_signals[s].entry_price),
                             Abs(gen_signals[s].entry_price - gen_signals[s].stop_loss))
               /\ gen_signals[s].risk_reward_ratio[2] > 0
               /\ gen_signals[s].risk_reward_ratio[1]
                      >= min_risk_reward * gen_signals[s].risk_reward_ratio[2]
        /\ \A k \in 1..Len(gen_patterns) :
               (/\ gen_patterns[k].pattern_type = "fair_value_gap"
                /\ TargetBelowMin(gen_patterns[k], gen_df, 1))
               => \A s \in 1..Len(gen_signals) : gen_signals[s].notes # NotesOf(gen_patterns[k])

\* A call returned a signal for one pattern and none for another whose first
\* target lies below the minimum while its second lies above.
C14_Witness ==
    /\ gpc = "generated"
    /\ gen_signals # <<>>
    /\ \E k \in 1..Len(gen_patterns) :
           /\ gen_patterns[k].pattern_type = "fair_value_gap"
           /\ TargetBelowMin(gen_patterns[k], gen_df, 1)
           /\ TargetAtLeastMin(gen_patterns[k], gen_df, 2)
           /\ \A s \in 1..Len(gen_signals) : gen_signals[s].notes # NotesOf(gen_patterns[k])

\* C15: every signal generate_signals_from_patterns returns has its stop_loss
\* strictly on the losing side of entry_price (below for a long, above for a
\* short), so entry_price differs from stop_loss, and a position_size with
\* position_size * |entry_price - stop_loss| = risk_amount
\* = account_size * max_risk_percent / 100; a pattern of no gap width met by
\* an ATR of zero, for which entry would equal stop, has no signal in the
\* returned list.
C15_StopOnLosingSideAndSizedByRisk ==
    gpc = "generated" =>
        /\ \A s \in 1..Len(gen_signals) :
               /\ gen_signals[s].direction = "long"
                      => gen_signals[s].stop_loss < gen_signals[s].entry_price
               /\ gen_signals[s].direction = "short"
                      => gen_signals[s].stop_loss > gen_signals[s].entry_price
               /\ gen_signals[s].entry_price # gen_signals[s].stop_loss
               /\ gen_signals[s].position_size[2] > 0
               /\ gen_signals[s].position_size[1]
                      * Abs(gen_signals[s].entry_price - gen_signals[s].stop_loss)
                  = gen_signals[s].risk_amount * gen_signals[s].position_size[2]
               /\ gen_signals[s].risk_amount * 100 = account_size * max_risk_percent
        /\ \A k \in 1..Len(gen_patterns) :
               (/\ gen_patterns[k].pattern_type = "fair_value_gap"
                /\ gen_patterns[k].price_high = gen_patterns[k].price_low
                /\ _calculate_atr(gen_df, AtrPeriod)[1] = 0)
               => \A s \in 1..Len(gen_signals) : gen_signals[s].notes # NotesOf(gen_patterns[k])

\* A call on a frame of ATR zero returned a signal for a pattern with a gap
\* and none for a pattern of no width.
C15_Witness ==
    /\ gpc = "generated"
    /\ gen_signals # <<>>
    /\ _calculate_atr(gen_df, AtrPeriod)[1] = 0
    /\ \E k \in 1..Len(gen_patterns) :
           /\ gen_patterns[k].pattern_type = "fair_value_gap"
           /\ gen_patterns[k].price_high = gen_patterns[k].price_low
           /\ \A s \in 1..Len(gen_signals) : gen_signals[s].notes # NotesOf(gen_patterns[k])

------------------------------------------------------------------------------
(* Specification SpecVal: check_signal_validity on one signal               *)

\* The signals checked: entry 100, the stop within and beyond 5 % of the
\* entry, with and without valid_until.
ValSignalMenu ==
    { [ direction |-> dir, entry_price |-> 100, stop_loss |-> stop, valid_until |-> until ] :
          dir \in {"long", "short"}, stop \in {93, 96, 104, 107}, until \in {<<>>, <<10>>} }

\* Prices from 8 % below the entry to 8 % above it; times around valid_until.
ValPriceMenu == 92..108
ValTimeMenu == {9, 10, 11}

InitVal ==
    /\ val_signal \in { s \in ValSignalMenu :
                          (s.direction = "long") = (s.stop_loss < s.entry_price) }
    /\ val_price = 100
    /\ val_time = 9
    /\ val_result = <<>>
    /\ vpc = "args"
    /\ DetectIdle
    /\ TPIdle
    /\ BTIdle
    /\ GenIdle
    /\ FetchIdle
    /\ EqIdle

\* The market moves before the check.
PriceMoves ==
    /\ vpc = "args"
    /\ val_price' \in ValPriceMenu \ {val_price}
    /\ UNCHANGED <<val_signal, val_time, val_result, vpc>>
    /\ UNCHANGED <<detectVars, tpVars, btVars, genVars, fetchVars, eqVars>>

\* Time passes before the check.
TimePasses ==
    /\ vpc = "args"
    /\ val_time' \in { t \in ValTimeMenu : t > val_time }
    /\ UNCHANGED <<val_signal, val_price, val_result, vpc>>
    /\ UNCHANGED <<detectVars, tpVars, btVars, genVars, fetchVars, eqVars>>

\* generator.check_signal_validity(signal, current_price, current_time)
CheckValidity ==
    /\ vpc = "args"
    /\ val_result' = check_signal_validity(val_signal, val_price, val_time)
    /\ vpc' = "returned"
    /\ UNCHANGED <<val_signal, val_price, val_time>>
    /\ UNCHANGED <<detectVars, tpVars, btVars, genVars, fetchVars, eqVars>>

NextVal == PriceMoves \/ TimePasses \/ CheckValidity

SpecVal == InitVal /\ [][NextVal]_vars

\* The three conditions of check_signal_validity, read from its arguments.
ValExpired == val_signal.valid_until # <<>> /\ val_time > val_signal.valid_until[1]

ValMovedAway == Abs(val_price - val_signal.entry_price) * 100 > 5 * val_signal.entry_price

ValStopHit ==
    \/ val_signal.direction = "long" /\ val_price <= val_signal.stop_loss
    \/ val_signal.direction = "short" /\ val_price >= val_signal.stop_loss

\* C16: check_signal_validity returns (False, expired) when current_time is
\* past valid_until; otherwise (False, price_moved_away) when the price is
\* more than 5 % from the entry; otherwise (False, stop_loss_hit) when the
\* price is at or beyond the stop; (True, valid) exactly when none holds.
\* current_time equal to valid_until is not expired and a move of exactly
\* 5 % is not price_moved_away.
C16_ValidityReasonsInOrder ==
    vpc = "returned" =>
        /\ ValExpired => val_result = <<FALSE, "expired">>
        /\ (~ ValExpired /\ ValMovedAway) => val_result = <<FALSE, "price_moved_away">>
        /\ (~ ValExpired /\ ~ ValMovedAway /\ ValStopHit)
               => val_result = <<FALSE, "stop_loss_hit">>
        /\ (val_result = <<TRUE, "valid">>)
               <=> (~ ValExpired /\ ~ ValMovedAway /\ ~ ValStopHit)
        /\ (val_signal.valid_until # <<>> /\ val_time = val_signal.valid_until[1])
               => val_result[2] # "expired"
        /\ Abs(val_price - val_signal.entry_price) * 100 = 5 * val_signal.entry_price
               => val_result[2] # "price_moved_away"

\* A check at the very time valid_until, the price beyond the stop and more
\* than 5 % from the entry, answered price_moved_away.
C16_Witness ==
    /\ vpc = "returned"
    /\ val_signal.valid_until # <<>>
    /\ val_time = val_signal.valid_until[1]
    /\ ValMovedAway
    /\ ValStopHit
    /\ val_result = <<FALSE, "price_moved_away">>

------------------------------------------------------------------------------
(* Specification SpecFetch: the aggregation loops of fetch_historical.main  *)

MaxMinuteCandles == 4

\* config "trading_pairs"
TradingPairs == <<"BTC/USDT", "ETH/USDT">>

\* The timeframe lists of the configuration: supported ones, an unsupported
\* number (3m), an unknown unit (5x), first or in the middle of the list.
TimeframesMenu ==
    { <<Tf(1, "m"), Tf(5, "m"), Tf(15, "m")>>,
      <<Tf(1, "m"), Tf(3, "m"), Tf(5, "m")>>,
      <<Tf(5, "x"), Tf(5, "m")>>,
      <<Tf(5, "m"), Tf(1, "h"), Tf(7, "q")>> }

\* The shapes of the 1-minute candles fetched.
MinuteShapes ==
    { [open |-> 100, high |-> 104, low |-> 99, close |-> 103, volume |-> 5],
      [open |-> 103, high |-> 106, low |-> 97, close |-> 98, volume |-> 7] }

\* Minutes between one fetched candle and the next: adjacent, one minute
\* missing, more than a whole 5-minute bin missing.
MinuteGaps == {1, 2, 11}

\* What was fetched for the second pair: nothing, or three candles.
SecondPairMenu ==
    { <<>>,
      << [timestamp |-> 4, open |-> 50, high |-> 52, low |-> 49, close |-> 51, volume |-> 2],
         [timestamp |-> 5, open |-> 51, high |-> 55, low |-> 50, close |-> 54, volume |-> 3],
         [timestamp |-> 6, open |-> 54, high |-> 54, low |-> 48, close |-> 49, volume |-> 4] >> }

\* main up to the loops: the configuration is read, nothing is fetched.
InitFetch ==
    /\ timeframes \in TimeframesMenu
    /\ \E second \in SecondPairMenu : ohlcv_1m = << <<>>, second >>
    /\ fpc = "config"
    /\ fetch_i = 0
    /\ fetch_j = 0
    /\ fetch_trace = <<>>
    /\ DetectIdle
    /\ TPIdle
    /\ BTIdle
    /\ GenIdle
    /\ ValIdle
    /\ EqIdle

\* The exchange returns one more 1-minute candle for the first pair, later
\* than the ones before.
FetchCandle ==
    /\ fpc = "config"
    /\ Len(ohlcv_1m[1]) < MaxMinuteCandles
    /\ \E shape \in MinuteShapes, gap \in MinuteGaps, start \in {3, 5} :
          ohlcv_1m' = [ohlcv_1m EXCEPT ![1] =
              Append(@, [ timestamp |-> IF @ = <<>> THEN start ELSE Last(@).timestamp + gap,
                          open |-> shape.open, high |-> shape.high, low |-> shape.low,
                          close |-> shape.close, volume |-> shape.volume ])]
    /\ UNCHANGED <<timeframes, fpc, fetch_i, fetch_j, fetch_trace>>
    /\ UNCHANGED <<detectVars, tpVars, btVars, genVars, valVars, eqVars>>

\* The loop over trading_pairs begins.
StartLoop ==
    /\ fpc = "config"
    /\ fpc' = "running"
    /\ fetch_i' = 1
    /\ fetch_j' = 0
    /\ UNCHANGED <<timeframes, ohlcv_1m, fetch_trace>>
    /\ UNCHANGED <<detectVars, tpVars, btVars, genVars, valVars, eqVars>>

\* No data for the pair: the warning and continue.
SkipPair ==
    /\ fpc = "running"
    /\ ohlcv_1m[fetch_i] = <<>>
    /\ fetch_j' = 0
    /\ IF fetch_i < Len(TradingPairs)
       THEN fetch_i' = fetch_i + 1 /\ fpc' = fpc
       ELSE fetch_i' = fetch_i /\ fpc' = "completed"
    /\ UNCHANGED <<timeframes, ohlcv_1m, fetch_trace>>
    /\ UNCHANGED <<detectVars, tpVars, btVars, genVars, valVars, eqVars>>

\* What one iteration of the loop over timeframes appends to the trace:
\* nothing for 1m, the error its except clause logs when aggregate_timeframe
\* raises, else the frame it saves.
IterationTrace(symbol, timeframe, df_1m) ==
    IF timeframe = Tf(1, "m") THEN <<>>
    ELSE IF aggregate_timeframe(df_1m, timeframe).raised
    THEN <<[kind |-> "error", symbol |-> symbol, timeframe |-> timeframe, bars |-> <<>>]>>
    ELSE <<[kind |-> "saved", symbol |-> symbol, timeframe |-> timeframe,
            bars |-> aggregate_timeframe(df_1m, timeframe).bars]>>

\* One iteration of the loop over timeframes, and the step to the next
\* timeframe, the next pair or the end of main.
AggregateTimeframe ==
    /\ fpc = "running"
    /\ ohlcv_1m[fetch_i] # <<>>
    /\ fetch_trace' = fetch_trace
           \o IterationTrace(TradingPairs[fetch_i], timeframes[fetch_j + 1], ohlcv_1m[fetch_i])
    /\ IF fetch_j + 1 < Len(timeframes)
       THEN fetch_j' = fetch_j + 1 /\ fetch_i' = fetch_i /\ fpc' = fpc
       ELSE IF fetch_i < Len(TradingPairs)
       THEN fetch_j' = 0 /\ fetch_i' = fetch_i + 1 /\ fpc' = fpc
       ELSE fetch_j' = fetch_j + 1 /\ fetch_i' = fetch_i /\ fpc' = "completed"
    /\ UNCHANGED <<timeframes, ohlcv_1m>>
    /\ UNCHANGED <<detectVars, tpVars, btVars, genVars, valVars, eqVars>>

NextFetch == FetchCandle \/ StartLoop \/ SkipPair \/ AggregateTimeframe

SpecFetch == InitFetch /\ [][NextFetch]_vars

\* The 1-minute candles of a pair, and those of them inside the 5-minute
\* bucket that starts at minute bin.
CandlesOfPair(symbol) ==
    ohlcv_1m[CHOOSE i \in 1..Len(TradingPairs) : TradingPairs[i] = symbol]

Constituents(symbol, bin) ==
    SelectSeq(CandlesOfPair(symbol), LAMBDA c : bin <= c.timestamp /\ c.timestamp < bin + 5)

\* The starts of the 5-minute buckets up to the last candle of the pair and
\* one bucket beyond.
Buckets(symbol) ==
    { 5 * b : b \in 0..(Last(CandlesOfPair(symbol)).timestamp \div 5 + 1) }

\* C17: aggregate_timeframe applied to 1-minute candles with target 5m gives,
\* for every 5-minute bucket that contains a 1-minute candle, one bar whose
\* open is the first constituent's open, high the maximum high, low the
\* minimum low, close the last constituent's close and volume the sum of the
\* volumes; a bucket without constituents gives no bar.
C17_FiveMinuteBarsFromConstituents ==
    \A e \in 1..Len(fetch_trace) :
        (fetch_trace[e].kind = "saved" /\ fetch_trace[e].timeframe = Tf(5, "m")) =>
            /\ \A j \in 1..Len(fetch_trace[e].bars) :
                   fetch_trace[e].bars[j].timestamp \in Buckets(fetch_trace[e].symbol)
            /\ \A bin \in Buckets(fetch_trace[e].symbol) :
                   LET rows == Constituents(fetch_trace[e].symbol, bin)
                       bars == { j \in 1..Len(fetch_trace[e].bars) :
                                     fetch_trace[e].bars[j].timestamp = bin }
                   IN  IF rows = <<>> THEN bars = {}
                       ELSE /\ Cardinality(bars) = 1
                            /\ \A j \in bars :
                                   /\ fetch_trace[e].bars[j].open = rows[1].open
                                   /\ fetch_trace[e].bars[j].close = rows[Len(rows)].close
                                   /\ \A k \in 1..Len(rows) :
                                          /\ fetch_trace[e].bars[j].high >= rows[k].high
                                          /\ fetch_trace[e].bars[j].low <= rows[k].low
                                   /\ \E k \in 1..Len(rows) :
                                          fetch_trace[e].bars[j].high = rows[k].high
                                   /\ \E k \in 1..Len(rows) :
                                          fetch_trace[e].bars[j].low = rows[k].low
                                   /\ fetch_trace[e].bars[j].volume = SumVolume(rows)

\* A saved 5m frame of two bars with an empty bucket between them, the first
\* bar made of several candles whose first and last differ in close.
C17_Witness ==
    \E e \in 1..Len(fetch_trace) :
        /\ fetch_trace[e].kind = "saved"
        /\ fetch_trace[e].timeframe = Tf(5, "m")
        /\ Len(fetch_trace[e].bars) = 2
        /\ fetch_trace[e].bars[2].timestamp > fetch_trace[e].bars[1].timestamp + 5
        /\ Len(Constituents(fetch_trace[e].symbol, fetch_trace[e].bars[1].timestamp)) >= 2
        /\ Constituents(fetch_trace[e].symbol, fetch_trace[e].bars[1].timestamp)[1].close
               # fetch_trace[e].bars[1].close

\* C19: an unsupported aggregation timeframe or an unknown unit suffix is
\* fatal: aggregate_timeframe and timeframe_to_minutes raise for it, and the
\* fetch script's aggregation loop stops at the error, so that nothing is
\* aggregated or saved after it and main does not run to completion.
C19_UnsupportedTimeframeStopsTheScript ==
    /\ \A k \in 1..Len(timeframes) :
           /\ timeframes[k] \notin TimeframeMap \cup {Tf(1, "m")}
                  => aggregate_timeframe(ohlcv_1m[1], timeframes[k]).raised
           /\ timeframes[k].unit \notin {"m", "h", "d", "w"}
                  => timeframe_to_minutes(timeframes[k]) = <<>>
    /\ \A e \in 1..Len(fetch_trace) :
           fetch_trace[e].kind = "error" => e = Len(fetch_trace) /\ fpc # "completed"

\* C18: each short input gives an empty result, not an error: detect on fewer
\* than 3 candles returns no pattern, find_swing_points on fewer than twice
\* the look-back returns no swing high and no swing low, and signal
\* generation on fewer candles than the ATR period returns, without raising,
\* no signal.
C18_ShortInputsGiveEmptyResults ==
    gpc # "args" =>
        /\ Len(gen_df) < 3 => detect(gen_df, DefaultLookback) = <<>>
        /\ Len(gen_df) < 2 * SwingLookback
               => find_swing_points(gen_df, SwingLookback) = [highs |-> <<>>, lows |-> <<>>]
        /\ Len(gen_df) < AtrPeriod => gpc = "generated" /\ gen_signals = <<>>

\* Whether p is in the list s.
InList(p, s) == \E k \in 1..Len(s) : s[k] = p

\* C20: in overlap resolution ties of confidence_score are broken by
\* gap_size descending: of two overlapping candidates of equal
\* confidence_score, neither overlapping a returned pattern of higher
\* confidence_score, the one with the smaller gap_size is not the one
\* returned in place of the other, whichever was scanned first.
C20_TiesBrokenByGapSize ==
    dpc = "detected" =>
        \A a, b \in 1..Len(candidates) :
            (/\ _patterns_overlap(candidates[a], candidates[b])
             /\ candidates[a].confidence_score = candidates[b].confidence_score
             /\ candidates[a].gap_size > candidates[b].gap_size
             /\ \A k \in 1..Len(patterns) :
                    patterns[k].confidence_score > candidates[a].confidence_score
                    => /\ ~ _patterns_overlap(patterns[k], candidates[a])
                       /\ ~ _patterns_overlap(patterns[k], candidates[b]))
            => (InList(candidates[a], patterns) /\ ~ InList(candidates[b], patterns))

\* unique_targets as the de-duplication loop leaves it, before the sort.
DedupTargets(a) == Deduplicate(PotentialTargets(a), <<>>, a.entry_price)

\* C21: after the de-duplication step no two surviving candidates have prices
\* within 0.5 % of entry_price of each other, and of two candidates within
\* 0.5 % the one of higher strength survives, the earlier-seen one on equal
\* strength.
C21_NoSurvivorsWithinHalfPercent ==
    tpc = "returned" =>
        /\ \A i, j \in 1..Len(DedupTargets(tp_in)) :
              i # j => ~ WithinHalfPercent(DedupTargets(tp_in)[i], DedupTargets(tp_in)[j],
                                           tp_in.entry_price)
        /\ \A i, j \in 1..Len(PotentialTargets(tp_in)) :
              (/\ i < j
               /\ WithinHalfPercent(PotentialTargets(tp_in)[i], PotentialTargets(tp_in)[j],
                                    tp_in.entry_price))
              => InList(IF PotentialTargets(tp_in)[j].strength > PotentialTargets(tp_in)[i].strength
                        THEN PotentialTargets(tp_in)[j]
                        ELSE PotentialTargets(tp_in)[i],
                        DedupTargets(tp_in))

\* Whether target t lies in the R:R bucket b of the description: near
\* [1.5, 2.5), mid [2.5, 4.0), far [4.0, infinity).
InDescribedBucket(t, risk, b) ==
    CASE b = 1 -> RRAtLeast(t.rr_ratio, risk, 3, 2) /\ ~ RRAtLeast(t.rr_ratio, risk, 5, 2)
      [] b = 2 -> RRAtLeast(t.rr_ratio, risk, 5, 2) /\ ~ RRAtLeast(t.rr_ratio, risk, 4, 1)
      [] b = 3 -> RRAtLeast(t.rr_ratio, risk, 4, 1)

\* Whether the list out holds a target of bucket b that no target of the
\* bucket in unique exceeds in strength.
HoldsStrongestOf(unique, out, risk, b) ==
    \E k \in 1..Len(unique) :
        /\ InDescribedBucket(unique[k], risk, b)
        /\ \A m \in 1..Len(unique) :
              InDescribedBucket(unique[m], risk, b) => unique[m].strength <= unique[k].strength
        /\ InList(unique[k], out)

\* C22: with max_levels = 3, for each of the buckets near, mid and far that
\* holds a de-duplicated candidate the result contains a strongest candidate
\* of that bucket; whenever some candidate has rr_ratio >= 4.0, however
\* large, the result contains a target with rr_ratio >= 4.0.
C22_EachBucketGivesItsStrongest ==
    (tpc = "returned" /\ tp_in.max_levels = 3) =>
        /\ \A b \in 1..3 :
              (\E k \in 1..Len(UniqueTargets(tp_in)) :
                   InDescribedBucket(UniqueTargets(tp_in)[k],
                                     Abs(tp_in.entry_price - tp_in.stop_loss), b))
              => HoldsStrongestOf(UniqueTargets(tp_in), tp_out,
                                  Abs(tp_in.entry_price - tp_in.stop_loss), b)
        /\ (\E k \in 1..Len(UniqueTargets(tp_in)) :
                InDescribedBucket(UniqueTargets(tp_in)[k],
                                  Abs(tp_in.entry_price - tp_in.stop_loss), 3))
           => \E k \in 1..Len(tp_out) :
                  InDescribedBucket(tp_out[k], Abs(tp_in.entry_price - tp_in.stop_loss), 3)

\* The target at k times the risk beyond the entry of call a, on the
\* profitable side, tagged fallback.
IsFallbackAt(t, a, k) ==
    /\ t.type = "fallback"
    /\ t.rr_ratio = k * Abs(a.entry_price - a.stop_loss)
    /\ t.price = IF a.direction = "long"
                 THEN a.entry_price + k * Abs(a.entry_price - a.stop_loss)
                 ELSE a.entry_price - k * Abs(a.entry_price - a.stop_loss)

\* C23: calculate_dynamic_take_profits returns fallback targets exactly when
\* no structural candidate survives the rr >= 1.5 filter; the result is then
\* the targets at 2, 3 and 4 times the risk beyond the entry, tagged fallback,
\* cut to max_levels; a fallback target never shares a result with a
\* structural one, and the result is not empty (max_levels >= 1).
C23_FallbackExactlyWithoutCandidates ==
    tpc = "returned" =>
        /\ tp_out # <<>>
        /\ IF PotentialTargets(tp_in) = <<>>
           THEN /\ Len(tp_out) = Min2(3, tp_in.max_levels)
                /\ \A k \in 1..Len(tp_out) : IsFallbackAt(tp_out[k], tp_in, k + 1)
           ELSE \A k \in 1..Len(tp_out) : tp_out[k].type # "fallback"

\* C23 witness: a call with swing points but no candidate at rr >= 1.5
\* returned the first two fallback targets.
C23_Witness ==
    /\ tpc = "returned"
    /\ tp_in.max_levels = 2
    /\ tp_in.swing_lows # <<>>
    /\ tp_in.direction = "short"
    /\ Len(tp_out) = 2
    /\ tp_out[2].type = "fallback"

\* selected_targets when the bucket loop is over, and when the top-up loop is.
SelectedFromBuckets(a) ==
    SelectFromBuckets(UniqueTargets(a), Abs(a.entry_price - a.stop_loss), 1, <<>>, a.max_levels)

SelectedAfterFillUp(a) == FillUp(UniqueTargets(a), SelectedFromBuckets(a), a.max_levels)

\* Whether no two entries of the list are equal.
NoTwoEqual(list) ==
    \A i, j \in 1..Len(list) : i # j => list[i] # list[j]

\* Whether the top-up loop ended with max_levels targets of unique selected,
\* or all of them, none of them twice.
FilledWithoutRepeat(unique, filled, max_levels) ==
    /\ filled.ends
    /\ Len(filled.selected) = Min2(max_levels, Len(unique))
    /\ NoTwoEqual(filled.selected)

\* Whether the call a, with the sorted unique_targets given, holds no target
\* twice and ends its top-up loop with the selection filled.
TerminatesOn(unique, a) ==
    /\ NoTwoEqual(unique)
    /\ unique # <<>> =>
          FilledWithoutRepeat(unique,
                              FillUp(unique,
                                     SelectFromBuckets(unique, Abs(a.entry_price - a.stop_loss),
                                                       1, <<>>, a.max_levels),
                                     a.max_levels),
                              a.max_levels)

-----------------------------------------------------------------------------
(* Specification of find_equal_levels                                      *)

\* Longest list of swing points handed to find_equal_levels.
MaxPoints == 4

\* Swing prices 60 apart, so that neighbours lie exactly on the 0.5 % bound
\* of the lowest and inside it for the others, and every mean of up to six of
\* them is an integer.
PointMenu == {12000, 12060, 12120, 12180}

\* Tolerances: none, the default 0.2 %, 0.5 % and 1 %.
ToleranceMenu == { <<0, 1>>, DefaultTolerance, <<1, 200>>, <<1, 100>> }

InitLevels ==
    /\ eq_points = <<>>
    /\ eq_tolerance \in ToleranceMenu
    /\ eq_levels = <<>>
    /\ epc = "args"
    /\ DetectIdle
    /\ TPIdle
    /\ BTIdle
    /\ GenIdle
    /\ ValIdle
    /\ FetchIdle

\* find_swing_points found one more swing point.
AddPoint ==
    /\ epc = "args"
    /\ Len(eq_points) < MaxPoints
    /\ \E p \in PointMenu : eq_points' = Append(eq_points, p)
    /\ UNCHANGED <<eq_tolerance, eq_levels, epc>>
    /\ UNCHANGED <<detectVars, tpVars, btVars, genVars, valVars, fetchVars>>

\* A call of find_equal_levels(swing_points, tolerance).
FindEqualLevels ==
    /\ epc = "args"
    /\ eq_levels' = find_equal_levels(eq_points, "swing_high", eq_tolerance)
    /\ epc' = "returned"
    /\ UNCHANGED <<eq_points, eq_tolerance>>
    /\ UNCHANGED <<detectVars, tpVars, btVars, genVars, valVars, fetchVars>>

NextLevels == AddPoint \/ FindEqualLevels

SpecLevels == InitLevels /\ [][NextLevels]_vars

\* used_indices when the outer loop of find_equal_levels reaches position i.
RECURSIVE UsedBefore(_, _, _)
UsedBefore(points, i, tolerance) ==
    IF i <= 1 THEN {}
    ELSE IF (i - 1) \in UsedBefore(points, i - 1, tolerance)
         THEN UsedBefore(points, i - 1, tolerance)
         ELSE UsedBefore(points, i - 1, tolerance)
              \cup ClusterMembers(points, i - 1, i, UsedBefore(points, i - 1, tolerance),
                                  tolerance)

\* The positions of the cluster the outer loop builds at position i: the seed
\* and the points gathered for it; empty when the loop skips i.
ClusterAt(points, i, tolerance) ==
    IF i \in UsedBefore(points, i, tolerance) THEN {}
    ELSE {i} \cup ClusterMembers(points, i, i + 1, UsedBefore(points, i, tolerance), tolerance)

\* The seeds whose cluster is emitted as a level, in list order.
EmittedSeeds(points, tolerance) ==
    SelectSeq([i \in 1..Len(points) |-> i],
              LAMBDA i : Cardinality(ClusterAt(points, i, tolerance)) >= 2)

RECURSIVE SumCounts(_)
SumCounts(levels) == IF levels = <<>> THEN 0 ELSE Head(levels).count + SumCounts(Tail(levels))

RECURSIVE SumAt(_, _)
SumAt(points, members) ==
    IF members = {} THEN 0
    ELSE points[CHOOSE m \in members : TRUE]
         + SumAt(points, members \ {CHOOSE m \in members : TRUE})

\* C25: find_equal_levels emits only levels with count >= 2; each level's
\* price is the mean of its members' prices and its strength is its member
\* count; every member is within the relative tolerance of the cluster's
\* seed; each input point belongs to at most one emitted level, so the counts
\* sum to at most the number of input points.
C25_EqualLevelsAreDisjointClusters ==
    epc = "returned" =>
        /\ Len(eq_levels) = Len(EmittedSeeds(eq_points, eq_tolerance))
        /\ SumCounts(eq_levels) <= Len(eq_points)
        /\ \A k \in 1..Len(eq_levels) :
              /\ eq_levels[k].count >= 2
              /\ eq_levels[k].strength = eq_levels[k].count
              /\ eq_levels[k].count
                    = Cardinality(ClusterAt(eq_points, EmittedSeeds(eq_points, eq_tolerance)[k],
                                            eq_tolerance))
              /\ eq_levels[k].price * eq_levels[k].count
                    = SumAt(eq_points,
                            ClusterAt(eq_points, EmittedSeeds(eq_points, eq_tolerance)[k],
                                      eq_tolerance))
              /\ \A m \in ClusterAt(eq_points, EmittedSeeds(eq_points, eq_tolerance)[k],
                                    eq_tolerance) :
                    Abs(eq_points[EmittedSeeds(eq_points, eq_tolerance)[k]] - eq_points[m])
                        * eq_tolerance[2]
                      <= eq_tolerance[1] * eq_points[EmittedSeeds(eq_points, eq_tolerance)[k]]
        /\ \A k, l \in 1..Len(eq_levels) :
              k # l => ClusterAt(eq_points, EmittedSeeds(eq_points, eq_tolerance)[k], eq_tolerance)
                          \cap ClusterAt(eq_points, EmittedSeeds(eq_points, eq_tolerance)[l],
                                         eq_tolerance) = {}

\* C25 witness: four points gave two levels, the second seeded by a point
\* within the tolerance of a member of the first cluster but not of its seed.
C25_Witness ==
    /\ epc = "returned"
    /\ Len(eq_points) = 4
    /\ Len(eq_levels) = 2
    /\ eq_levels[1].price # eq_levels[2].price
    /\ \E m \in ClusterAt(eq_points, EmittedSeeds(eq_points, eq_tolerance)[1], eq_tolerance) :
          Abs(eq_points[EmittedSeeds(eq_points, eq_tolerance)[2]] - eq_points[m])
              * eq_tolerance[2]
            <= eq_tolerance[1] * eq_points[m]

\* The patterns of pats for which the generator appended a signal, in order:
\* signal k of the returned list was generated from pattern k of this list.
RECURSIVE SourcePatterns(_, _, _, _)
SourcePatterns(pats, symbol, timeframe, d) ==
    IF pats = <<>> THEN <<>>
    ELSE (IF /\ Head(pats).pattern_type = "fair_value_gap"
             /\ _generate_fvg_signal(Head(pats), symbol, timeframe, d) # <<>>
          THEN <<Head(pats)>>
          ELSE <<>>)
         \o SourcePatterns(Tail(pats), symbol, timeframe, d)

\* C29: in the backtest script every signal handed to run_backtest carries a
\* generated_at equal to the end_timestamp of the pattern it was generated
\* from, also when the generator rejected patterns that precede it in the
\* pattern list.
C29_GeneratedAtIsSourcePatternEnd ==
    gpc = "stamped" =>
        \A k \in 1..Len(gen_signals) :
            gen_signals[k].generated_at
                = SourcePatterns(gen_patterns, "BTC/USDT", "1h", gen_df)[k].end_timestamp

\* max(equity[0..k]) of the equity curve, k counted from 1.
PeakUpTo(curve, k) ==
    curve[CHOOSE i \in 1..k : \A j \in 1..k : curve[j].equity <= curve[i].equity].equity

\* (max(equity[0..k]) - equity[k]) / max(equity[0..k]) as a fraction.
DeclineAt(curve, k) == Frac(PeakUpTo(curve, k) - curve[k].equity, PeakUpTo(curve, k))

\* Two fractions of non-negative numerator and positive denominator are equal.
FracEqual(f, g) == ~ FracLess(f[1], f[2], g[1], g[2]) /\ ~ FracLess(g[1], g[2], f[1], f[2])

\* C24: the max_drawdown a run reports is the maximum, over the positions k
\* of the equity curve in append order, of the decline of equity[k] from the
\* maximum of equity[0..k], relative to that maximum; it is 0 when the curve
\* is empty or non-decreasing, and never negative.
C24_MaxDrawdownIsLargestDecline ==
    pc = "done" =>
        /\ results.max_drawdown[1] >= 0 /\ results.max_drawdown[2] > 0
        /\ \A k \in 1..Len(equity_curve) :
              ~ FracLess(results.max_drawdown[1], results.max_drawdown[2],
                         DeclineAt(equity_curve, k)[1], DeclineAt(equity_curve, k)[2])
        /\ IF \A k \in 1..(Len(equity_curve) - 1) :
                  equity_curve[k].equity <= equity_curve[k + 1].equity
           THEN results.max_drawdown[1] = 0
           ELSE \E k \in 1..Len(equity_curve) :
                    FracEqual(results.max_drawdown, DeclineAt(equity_curve, k))

\* C24 witness: a run with three equity points, the second above the first
\* and the third below the second.
C24_Witness ==
    /\ pc = "done"
    /\ Len(equity_curve) = 3
    /\ equity_curve[1].equity < equity_curve[2].equity
    /\ equity_curve[3].equity < equity_curve[2].equity
    /\ results.max_drawdown[1] > 0

\* C26: at every point of a backtest run, after any sequence of opened,
\* closed, skipped and never-closed positions, capital is >= 0 (prices, sizes
\* and the commission are non-negative, the slippage is at most 100 %).
C26_CapitalNeverNegative == capital >= 0

\* C26 witness: a position was left open, a later signal was refused for
\* capital and a third was entered and closed; less than the initial capital
\* is left.
C26_Witness ==
    /\ pc = "done"
    /\ \E k, l, n \in 1..Len(journal) :
          /\ journal[k].outcome = "open"
          /\ journal[l].outcome = "insufficient"
          /\ journal[n].outcome = "closed"
    /\ capital < initial_capital * MoneyScale

\* The slippage-adjusted price gain of a closed trade, in money units.
PriceGain(trade) ==
    IF trade.direction = "long"
    THEN (trade.exit_price - trade.entry_price) * trade.position_size * MoneyPerPrice
    ELSE (trade.entry_price - trade.exit_price) * trade.position_size * MoneyPerPrice

\* The commissions charged on the entry and on the exit of a closed trade.
EntryCommission(trade) ==
    (trade.position_size * trade.entry_price * MoneyPerPrice) \div CommissionDiv

ExitCommission(trade) ==
    (trade.position_size * trade.exit_price * MoneyPerPrice) \div CommissionDiv

RECURSIVE SumEntryCommissions(_)
SumEntryCommissions(trades) ==
    IF trades = <<>> THEN 0
    ELSE EntryCommission(Head(trades)) + SumEntryCommissions(Tail(trades))

\* C27: for every closed trade, long or short, the capital after the close
\* minus the capital just before the entry is the trade's slippage-adjusted
\* price gain minus the commissions charged; hence in a run where every
\* opened position closes, final_capital - initial_capital is the sum of the
\* recorded pnl minus the entry commissions.
C27_CapitalChangeIsGainLessCommissions ==
    [][ /\ (pc = "running" /\ Len(closed_trades') = Len(closed_trades) + 1)
           => capital' - capital
                 = PriceGain(Last(closed_trades'))
                   - EntryCommission(Last(closed_trades'))
                   - ExitCommission(Last(closed_trades'))
        /\ (/\ pc = "running"
            /\ pc' = "done"
            /\ closed_trades # <<>>
            /\ \A k \in 1..Len(journal) : Entered(k) => journal[k].outcome = "closed")
           => results'.final_capital - results'.initial_capital
                 = SumPnl(closed_trades) - SumEntryCommissions(closed_trades) ]_vars

\* C30: the overlap filter is maximal with respect to its ranking: every
\* candidate filter_overlapping_patterns discards overlaps in time with a kept
\* pattern whose confidence_score is at least its own, and a candidate that
\* overlaps no kept pattern is kept.
C30_DiscardedOverlapsStrongerKept ==
    dpc = "detected" =>
        \A a \in 1..Len(candidates) :
            /\ ~ InList(candidates[a], patterns)
               => \E k \in 1..Len(patterns) :
                      /\ _patterns_overlap(candidates[a], patterns[k])
                      /\ patterns[k].confidence_score >= candidates[a].confidence_score
            /\ (\A k \in 1..Len(patterns) : ~ _patterns_overlap(candidates[a], patterns[k]))
               => InList(candidates[a], patterns)

\* C30 witness: the filter discarded a candidate in favour of an overlapping
\* one of strictly higher confidence_score that was scanned after it, and kept
\* another pattern besides.
C30_Witness ==
    /\ dpc = "detected"
    /\ Len(patterns) >= 2
    /\ \E a, b \in 1..Len(candidates) :
          /\ a < b
          /\ ~ InList(candidates[a], patterns)
          /\ InList(candidates[b], patterns)
          /\ _patterns_overlap(candidates[a], candidates[b])
          /\ candidates[b].confidence_score > candidates[a].confidence_score

====
